---- MODULE Spec2Model ----
(***************************************************************************)
(* Bulk import of assets ("patrimonios") from a spreadsheet:               *)
(*   backend/import_patrimonio.py  PatrimonioImporter                      *)
(*   backend/import_controller.py  ImportPatrimonioDialog, ImportThread    *)
(*   backend/validators.py         validar_cnpj, validar_email, ...        *)
(*                                                                         *)
(* Python strings are sequences of one-character strings, so that strip,   *)
(* lower, replace and the parsers are computed and not assumed.            *)
(***************************************************************************)
EXTENDS Integers, Sequences, FiniteSets, TLC

VARIABLES
    \* the relational store (tables, AUTO_INCREMENT counters)
    fornecedores, setores_locais, categorias, patrimonios, auto_inc,
    \* PatrimonioImporter instance attributes
    _fornecedores_cache, _setores_cache, _categorias_cache,
    \* ImportPatrimonioDialog attributes and widgets
    dialogo, dados_validados, linhas_validas, validacao, txt_erros, botoes,
    \* ImportThread and the frame of the importar call it runs
    thread, pc, idx, importados, erros, fornecedores_criados,
    setores_criados, categorias_criadas, ids, emitidos,
    \* history of the current run: store writes, what each _garantir_* call
    \* returned, rows that raised, injected faults
    inseridos, resolvidos, falhou, falhas, execucoes,
    \* signals queued to the UI thread, the values _atualizar_progresso has set
    fila, recebidos,
    \* the runs the current importer has finished; the last standalone
    \* validar_cnpj call
    historico, verificacao,
    \* the tables whose SELECT failed in _carregar_caches of the current run
    cargas_falhas,
    \* a second dialog with its own importer on the same store, while it is not
    \* the one taking steps: its attributes, thread, frame and history
    outro

vars == <<fornecedores, setores_locais, categorias, patrimonios, auto_inc,
          _fornecedores_cache, _setores_cache, _categorias_cache,
          dialogo, dados_validados, linhas_validas, validacao, txt_erros, botoes,
          thread, pc, idx, importados, erros, fornecedores_criados,
          setores_criados, categorias_criadas, ids, emitidos,
          inseridos, resolvidos, falhou, falhas, execucoes,
          fila, recebidos, historico, verificacao, cargas_falhas, outro>>

storeVars == <<fornecedores, setores_locais, categorias, patrimonios, auto_inc>>
cacheVars == <<_fornecedores_cache, _setores_cache, _categorias_cache>>
dialogVars == <<dialogo, dados_validados, linhas_validas, validacao, txt_erros, botoes>>
frameVars == <<pc, idx, importados, erros, fornecedores_criados,
               setores_criados, categorias_criadas, ids, emitidos>>
histVars == <<inseridos, resolvidos, falhou, falhas, execucoes>>
sinalVars == <<fila, recebidos>>
outrasVars == <<historico, verificacao, cargas_falhas, outro>>

----------------------------------------------------------------------------
(* Python str primitives over character sequences *)

Digits == <<"0", "1", "2", "3", "4", "5", "6", "7", "8", "9">>
Upper == <<"A", "B", "C", "D", "E", "F", "G", "H", "I", "J", "K", "L", "M",
           "N", "O", "P", "Q", "R", "S", "T", "U", "V", "W", "X", "Y", "Z">>
LowerCase == <<"a", "b", "c", "d", "e", "f", "g", "h", "i", "j", "k", "l", "m",
               "n", "o", "p", "q", "r", "s", "t", "u", "v", "w", "x", "y", "z">>

Range(f) == {f[i] : i \in DOMAIN f}

IsDigit(c) == c \in Range(Digits)
IsAlpha(c) == c \in Range(Upper) \cup Range(LowerCase)
DigitVal(c) == (CHOOSE i \in DOMAIN Digits : Digits[i] = c) - 1

\* str.lower()
Lower(s) ==
    [i \in DOMAIN s |->
        IF s[i] \in Range(Upper)
        THEN LowerCase[CHOOSE j \in DOMAIN Upper : Upper[j] = s[i]]
        ELSE s[i]]

\* str.strip(): leading and trailing whitespace removed
Strip(s) ==
    LET keep == {i \in DOMAIN s : s[i] # " "} IN
    IF keep = {} THEN <<>>
    ELSE LET lo == CHOOSE i \in keep : \A j \in keep : i <= j
             hi == CHOOSE i \in keep : \A j \in keep : j <= i
         IN SubSeq(s, lo, hi)

\* str.replace(old, new): non-overlapping occurrences, left to right
RECURSIVE Replace(_, _, _)
Replace(s, old, new) ==
    IF Len(s) < Len(old) \/ old = <<>> THEN s
    ELSE IF SubSeq(s, 1, Len(old)) = old
         THEN new \o Replace(SubSeq(s, Len(old) + 1, Len(s)), old, new)
         ELSE <<s[1]>> \o Replace(Tail(s), old, new)

\* re.sub(r'[^0-9]', '', s)
SoDigitos(s) == SelectSeq(s, IsDigit)

\* the value of a run of decimal digits
RECURSIVE DigitsToInt(_)
DigitsToInt(s) ==
    IF s = <<>> THEN 0
    ELSE 10 * DigitsToInt(SubSeq(s, 1, Len(s) - 1)) + DigitVal(s[Len(s)])

AllDigits(s) == \A i \in DOMAIN s : IsDigit(s[i])

\* str(n) of a natural number
RECURSIVE NatToStr(_)
NatToStr(n) ==
    IF n < 10 THEN <<Digits[n + 1]>>
    ELSE NatToStr(n \div 10) \o <<Digits[(n % 10) + 1]>>

IntToStr(n) == IF n < 0 THEN <<"-">> \o NatToStr(-n) ELSE NatToStr(n)

RECURSIVE Pow10(_)
Pow10(k) == IF k = 0 THEN 1 ELSE 10 * Pow10(k - 1)

\* the index of the first occurrence of character c in s, 0 when absent
Find(s, c) ==
    IF \E i \in DOMAIN s : s[i] = c
    THEN CHOOSE i \in DOMAIN s : s[i] = c /\ \A j \in 1..(i - 1) : s[j] # c
    ELSE 0

\* str.split(c)
RECURSIVE Split(_, _)
Split(s, c) ==
    LET p == Find(s, c) IN
    IF p = 0 THEN <<s>>
    ELSE <<SubSeq(s, 1, p - 1)>> \o Split(SubSeq(s, p + 1, Len(s)), c)

----------------------------------------------------------------------------
(* Python values held by spreadsheet cells: None, str, int, float, date.    *)
(* A float is num / 10^k (k >= 1 digits after the point in its repr); a date *)
(* is the number yyyymmdd.                                                  *)

PyNone == [t |-> "None", s |-> <<>>, n |-> 0, k |-> 0]
PyStr(s) == [t |-> "str", s |-> s, n |-> 0, k |-> 0]
PyInt(n) == [t |-> "int", s |-> <<>>, n |-> n, k |-> 0]
PyFloat(num, k) == [t |-> "float", s |-> <<>>, n |-> num, k |-> k]
PyDate(n) == [t |-> "date", s |-> <<>>, n |-> n, k |-> 0]

Abs(n) == IF n < 0 THEN -n ELSE n

\* zero-padded decimal digits of n, at least w wide
Pad(n, w) ==
    LET d == NatToStr(n) IN
    IF Len(d) >= w THEN d ELSE [i \in 1..(w - Len(d)) |-> "0"] \o d

\* str(value)
ToStr(v) ==
    CASE v.t = "None" -> <<"N", "o", "n", "e">>
      [] v.t = "str" -> v.s
      [] v.t = "int" -> IntToStr(v.n)
      [] v.t = "float" ->
            (IF v.n < 0 THEN <<"-">> ELSE <<>>)
            \o NatToStr(Abs(v.n) \div Pow10(v.k)) \o <<".">>
            \o Pad(Abs(v.n) % Pow10(v.k), v.k)
      [] v.t = "date" ->
            Pad(v.n \div 10000, 4) \o <<"-">> \o Pad((v.n \div 100) % 100, 2)
            \o <<"-">> \o Pad(v.n % 100, 2)

\* bool(value), as used by any(row) and by "x or None"
Truthy(v) ==
    CASE v.t = "None" -> FALSE
      [] v.t = "str" -> v.s # <<>>
      [] v.t \in {"int", "float"} -> v.n # 0
      [] v.t = "date" -> TRUE

\* decimal.Decimal(text): [sign] digits [. digits] | [sign] . digits, after
\* strip. A Decimal is num / 10^k; ok = FALSE stands for the InvalidOperation
\* that _parse_decimal turns into None. (Exponent, Infinity and NaN forms need
\* letters that no enumerated input carries.)
DecNone == [ok |-> FALSE, num |-> 0, k |-> 0]

Decimal(text) ==
    LET s == Strip(text)
        neg == s # <<>> /\ s[1] = "-"
        body == IF s # <<>> /\ s[1] \in {"-", "+"} THEN Tail(s) ELSE s
        p == Find(body, ".")
        int == IF p = 0 THEN body ELSE SubSeq(body, 1, p - 1)
        frac == IF p = 0 THEN <<>> ELSE SubSeq(body, p + 1, Len(body))
    IN IF AllDigits(int) /\ AllDigits(frac) /\ Len(int) + Len(frac) > 0
       THEN [ok |-> TRUE,
             num |-> (IF neg THEN -1 ELSE 1) * DigitsToInt(int \o frac),
             k |-> Len(frac)]
       ELSE DecNone

\* the comparison of two Decimals by value
DecEq(a, b) == a.ok /\ b.ok /\ a.num * Pow10(b.k) = b.num * Pow10(a.k)

\* a parser that keeps the dots (reads the text as a US-format number)
_parse_decimal_sem_milhar(value) ==
    IF value.t = "None" \/ value = PyStr(<<>>) THEN DecNone
    ELSE IF value.t \in {"int", "float"} THEN Decimal(ToStr(value))
    ELSE LET value_str == Replace(Replace(Strip(ToStr(value)), <<"R", "$">>, <<>>),
                                  <<" ">>, <<>>)
         IN Decimal(Replace(value_str, <<",">>, <<".">>))

\* _parse_decimal: None on "" / None / InvalidOperation
_parse_decimal(value) ==
    IF value.t = "None" \/ value = PyStr(<<>>) THEN DecNone
    ELSE IF value.t \in {"int", "float"} THEN Decimal(ToStr(value))
    ELSE LET value_str == Replace(Replace(Strip(ToStr(value)), <<"R", "$">>, <<>>),
                                  <<" ">>, <<>>)
         IN Decimal(Replace(Replace(value_str, <<".">>, <<>>), <<",">>, <<".">>))

\* int(text): [sign] digits, after strip
IntLiteral(text) ==
    LET s == Strip(text)
        body == IF s # <<>> /\ s[1] \in {"-", "+"} THEN Tail(s) ELSE s
    IN body # <<>> /\ AllDigits(body)

IntOf(text) ==
    LET s == Strip(text)
        body == IF s[1] \in {"-", "+"} THEN Tail(s) ELSE s
    IN (IF s[1] = "-" THEN -1 ELSE 1) * DigitsToInt(body)

_parse_int(value) ==
    IF value.t = "int" THEN value.n
    ELSE IF value.t = "float"
         THEN (IF value.n < 0 THEN -1 ELSE 1) * (Abs(value.n) \div Pow10(value.k))
         ELSE IF IntLiteral(ToStr(value)) THEN IntOf(ToStr(value)) ELSE 1

\* datetime.strptime directives: the text each one matches and its value
DiaOk(s) ==
    \/ Len(s) = 1 /\ IsDigit(s[1]) /\ s[1] # "0"
    \/ Len(s) = 2 /\ \/ s[1] = "3" /\ s[2] \in {"0", "1"}
                     \/ s[1] \in {"1", "2"} /\ IsDigit(s[2])
                     \/ s[1] \in {"0", " "} /\ IsDigit(s[2]) /\ s[2] # "0"
MesOk(s) ==
    \/ Len(s) = 1 /\ IsDigit(s[1]) /\ s[1] # "0"
    \/ Len(s) = 2 /\ \/ s[1] = "1" /\ s[2] \in {"0", "1", "2"}
                     \/ s[1] = "0" /\ IsDigit(s[2]) /\ s[2] # "0"
Ano4Ok(s) == Len(s) = 4 /\ AllDigits(s)
Ano2Ok(s) == Len(s) = 2 /\ AllDigits(s)
Ano2(s) == IF DigitsToInt(s) <= 68 THEN 2000 + DigitsToInt(s) ELSE 1900 + DigitsToInt(s)

Bissexto(y) == (y % 4 = 0 /\ y % 100 # 0) \/ y % 400 = 0
DiasNoMes(m, y) ==
    IF m = 2 THEN (IF Bissexto(y) THEN 29 ELSE 28)
    ELSE IF m \in {4, 6, 9, 11} THEN 30 ELSE 31

\* datetime.date(y, m, d), 0 when the constructor raises ValueError
MkDate(y, m, d) ==
    IF y >= 1 /\ m \in 1..12 /\ d >= 1 /\ d <= DiasNoMes(m, y)
    THEN y * 10000 + m * 100 + d ELSE 0

\* strptime(value_str, fmt).date() for the four accepted formats, 0 on failure
Strptime(s, fmt) ==
    LET sep == IF fmt \in {"%d/%m/%Y", "%d/%m/%y"} THEN "/" ELSE "-"
        p == Split(s, sep)
        val(x) == DigitsToInt(SoDigitos(x))
    IN IF Len(p) # 3 THEN 0
       ELSE CASE fmt = "%d/%m/%Y" ->
                   IF DiaOk(p[1]) /\ MesOk(p[2]) /\ Ano4Ok(p[3])
                   THEN MkDate(val(p[3]), val(p[2]), val(p[1])) ELSE 0
              [] fmt = "%Y-%m-%d" ->
                   IF Ano4Ok(p[1]) /\ MesOk(p[2]) /\ DiaOk(p[3])
                   THEN MkDate(val(p[1]), val(p[2]), val(p[3])) ELSE 0
              [] fmt = "%d-%m-%Y" ->
                   IF DiaOk(p[1]) /\ MesOk(p[2]) /\ Ano4Ok(p[3])
                   THEN MkDate(val(p[3]), val(p[2]), val(p[1])) ELSE 0
              [] fmt = "%d/%m/%y" ->
                   IF DiaOk(p[1]) /\ MesOk(p[2]) /\ Ano2Ok(p[3])
                   THEN MkDate(Ano2(p[3]), val(p[2]), val(p[1])) ELSE 0

\* the first format that parses wins; 0 stands for None
_parse_data(value) ==
    IF value.t = "None" \/ value = PyStr(<<>>) THEN 0
    ELSE IF value.t = "date" THEN value.n
    ELSE LET value_str == Strip(ToStr(value))
             formats == <<"%d/%m/%Y", "%Y-%m-%d", "%d-%m-%Y", "%d/%m/%y">>
             hits == {i \in DOMAIN formats : Strptime(value_str, formats[i]) # 0}
         IN IF hits = {} THEN 0
            ELSE Strptime(value_str, formats[CHOOSE i \in hits : \A j \in hits : i <= j])

----------------------------------------------------------------------------
(* backend/validators.py: every validator returns the tuple (valido, mensagem) *)

EmailLocal(c) == IsAlpha(c) \/ IsDigit(c) \/ c \in {".", "_", "%", "+", "-"}
EmailDom(c) == IsAlpha(c) \/ IsDigit(c) \/ c \in {".", "-"}

\* re.match(r'^[a-zA-Z0-9._%+-]+@[a-zA-Z0-9.-]+\.[a-zA-Z]{2,}$', email)
EmailPadrao(s) ==
    LET p == Find(s, "@")
        rest == SubSeq(s, p + 1, Len(s))
        dots == {i \in DOMAIN rest : rest[i] = "."}
        q == CHOOSE i \in dots : \A j \in dots : j <= i
    IN /\ p > 1
       /\ \A i \in 1..(p - 1) : EmailLocal(s[i])
       /\ dots # {}
       /\ q > 1
       /\ \A i \in 1..(q - 1) : EmailDom(rest[i])
       /\ Len(rest) - q >= 2
       /\ \A i \in (q + 1)..Len(rest) : IsAlpha(rest[i])

validar_email(email) ==
    IF Strip(email) = <<>> THEN <<FALSE, "O e-mail nao pode estar vazio.">>
    ELSE IF ~EmailPadrao(Strip(email)) THEN <<FALSE, "Informe um e-mail valido.">>
    ELSE IF Cardinality({i \in DOMAIN Strip(email) : Strip(email)[i] = "@"}) # 1
         THEN <<FALSE, "Informe um e-mail valido.">>
    ELSE <<TRUE, "">>

pesos1 == <<5, 4, 3, 2, 9, 8, 7, 6, 5, 4, 3, 2>>
pesos2 == <<6, 5, 4, 3, 2, 9, 8, 7, 6, 5, 4, 3, 2>>

RECURSIVE SomaPesos(_, _, _)
SomaPesos(cnpj_parcial, pesos, i) ==
    IF i > Len(pesos) THEN 0
    ELSE DigitVal(cnpj_parcial[i]) * pesos[i] + SomaPesos(cnpj_parcial, pesos, i + 1)

\* a check digit that is always 11 minus the remainder
calcular_digito_sem_zero(cnpj_parcial, pesos) ==
    11 - (SomaPesos(cnpj_parcial, pesos, 1) % 11)
\* calcular_digito: 0 if resto < 2 else 11 - resto
calcular_digito(cnpj_parcial, pesos) ==
    LET resto == SomaPesos(cnpj_parcial, pesos, 1) % 11
    IN IF resto < 2 THEN 0 ELSE 11 - resto

validar_cnpj(cnpj) ==
    LET cnpj_limpo == SoDigitos(cnpj) IN
    IF Strip(cnpj) = <<>> THEN <<FALSE, "O CNPJ nao pode estar vazio.">>
    ELSE IF Len(cnpj_limpo) # 14
         THEN <<FALSE, "CNPJ invalido. Verifique se digitou os 14 digitos corretamente.">>
    ELSE IF \A i \in 1..14 : cnpj_limpo[i] = cnpj_limpo[1]
         THEN <<FALSE, "CNPJ invalido.">>
    ELSE IF DigitVal(cnpj_limpo[13]) # calcular_digito(SubSeq(cnpj_limpo, 1, 12), pesos1)
         THEN <<FALSE, "CNPJ invalido. Digito verificador incorreto.">>
    ELSE IF DigitVal(cnpj_limpo[14]) # calcular_digito(SubSeq(cnpj_limpo, 1, 13), pesos2)
         THEN <<FALSE, "CNPJ invalido. Digito verificador incorreto.">>
    ELSE <<TRUE, "">>

validar_telefone(telefone) ==
    LET telefone_limpo == SoDigitos(telefone) IN
    IF Strip(telefone) = <<>> THEN <<FALSE, "O telefone nao pode estar vazio.">>
    ELSE IF Len(telefone_limpo) < 10 \/ Len(telefone_limpo) > 11
         THEN <<FALSE, "Telefone invalido. Informe apenas numeros com DDD (10 ou 11 digitos).">>
    ELSE <<TRUE, "">>

\* bool(t) of a tuple: a non-empty tuple is true whatever it holds
TupleTruthy(t) == Len(t) > 0

----------------------------------------------------------------------------
(* PatrimonioImporter: validation. A raw row is a dict: a function from      *)
(* column names to cell values, with the source line under "_linha".         *)

VALID_STATUS == << <<"a", "t", "i", "v", "o">>,
                   <<"b", "a", "i", "x", "a", "d", "o">>,
                   <<"e", "m", "_", "m", "a", "n", "u", "t", "e", "n", "c", "a", "o">>,
                   <<"d", "e", "s", "a", "p", "a", "r", "e", "c", "i", "d", "o">> >>

VALID_ESTADOS == << <<"n", "o", "v", "o">>, <<"b", "o", "m">>,
                    <<"r", "e", "g", "u", "l", "a", "r">>, <<"r", "u", "i", "m">> >>

REQUIRED_COLUMNS == <<"nome", "data_aquisicao", "valor_compra", "categoria",
                      "fornecedor_nome", "setor_local", "status">>

\* dict.get(key, default)
Get(row, key, default) == IF key \in DOMAIN row THEN row[key] ELSE default

\* str(row.get(key, "")).strip()
StrCampo(row, key) == Strip(ToStr(Get(row, key, PyStr(<<>>))))

\* "status not in self.VALID_STATUS", negated
status_qualquer(status) == TRUE
status_valido(status) == status \in Range(VALID_STATUS)

\* a ValueError raised by _validar_linha: f"{msg}{arg}[. Use: {use}]"
Erro(msg, arg, use) == [ok |-> FALSE, msg |-> msg, arg |-> arg, use |-> use]

\* _validar_linha returns a PatrimonioImportRow (ok) or raises (not ok). An
\* absent Optional[str] (None) is the empty sequence: "x.strip() or None" never
\* yields an empty string.
_validar_linha(row) ==
    LET linha_num == Get(row, "_linha", PyInt(0)).n
        nome == StrCampo(row, "nome")
        data_aquisicao == _parse_data(Get(row, "data_aquisicao", PyNone))
        valor_compra == _parse_decimal(Get(row, "valor_compra", PyNone))
        quantidade == _parse_int(Get(row, "quantidade", PyInt(1)))
        categoria == StrCampo(row, "categoria")
        fornecedor_nome == StrCampo(row, "fornecedor_nome")
        fornecedor_cnpj == StrCampo(row, "fornecedor_cnpj")
        fornecedor_telefone == StrCampo(row, "fornecedor_telefone")
        fornecedor_email == StrCampo(row, "fornecedor_email")
        setor_local == StrCampo(row, "setor_local")
        status == Lower(Strip(ToStr(Get(row, "status",
                                        PyStr(<<"a", "t", "i", "v", "o">>)))))
        estado_conservacao == Lower(Strip(ToStr(Get(row, "estado_conservacao",
                                                    PyStr(<<"b", "o", "m">>)))))
    IN IF nome = <<>> THEN Erro("Nome e obrigatorio", <<>>, <<>>)
       ELSE IF data_aquisicao = 0
            THEN Erro("Data de aquisicao invalida ou ausente", <<>>, <<>>)
       ELSE IF ~valor_compra.ok \/ valor_compra.num < 0
            THEN Erro("Valor de compra invalido ou ausente", <<>>, <<>>)
       ELSE IF quantidade <= 0
            THEN Erro("Quantidade deve ser maior que zero", <<>>, <<>>)
       ELSE IF categoria = <<>> THEN Erro("Categoria e obrigatoria", <<>>, <<>>)
       ELSE IF fornecedor_nome = <<>>
            THEN Erro("Nome do fornecedor e obrigatorio", <<>>, <<>>)
       ELSE IF fornecedor_cnpj # <<>> /\ ~TupleTruthy(validar_cnpj(fornecedor_cnpj))
            THEN Erro("CNPJ invalido: ", fornecedor_cnpj, <<>>)
       ELSE IF fornecedor_telefone # <<>>
               /\ ~TupleTruthy(validar_telefone(fornecedor_telefone))
            THEN Erro("Telefone invalido: ", fornecedor_telefone, <<>>)
       ELSE IF fornecedor_email # <<>> /\ ~TupleTruthy(validar_email(fornecedor_email))
            THEN Erro("Email invalido: ", fornecedor_email, <<>>)
       ELSE IF setor_local = <<>> THEN Erro("Setor/Local e obrigatorio", <<>>, <<>>)
       ELSE IF ~status_valido(status)
            THEN Erro("Status invalido: ", status, VALID_STATUS)
       ELSE IF estado_conservacao \notin Range(VALID_ESTADOS)
            THEN Erro("Estado invalido: ", estado_conservacao, VALID_ESTADOS)
       ELSE [ok |-> TRUE,
             linha |-> linha_num,
             nome |-> nome,
             descricao |-> StrCampo(row, "descricao"),
             numero_serie |-> StrCampo(row, "numero_serie"),
             data_aquisicao |-> data_aquisicao,
             valor_compra |-> valor_compra,
             quantidade |-> quantidade,
             numero_nota |-> StrCampo(row, "numero_nota"),
             estado_conservacao |-> estado_conservacao,
             categoria |-> categoria,
             fornecedor_nome |-> fornecedor_nome,
             fornecedor_cnpj |-> fornecedor_cnpj,
             fornecedor_telefone |-> fornecedor_telefone,
             fornecedor_email |-> fornecedor_email,
             fornecedor_inscricao |-> StrCampo(row, "fornecedor_inscricao"),
             fornecedor_contato |-> StrCampo(row, "fornecedor_contato"),
             fornecedor_observacoes |-> StrCampo(row, "fornecedor_observacoes"),
             setor_local |-> setor_local,
             status |-> status]

\* f"Linha {linha_num}: {str(e)}"
LinhaErro(linha_num, e) == [linha |-> linha_num, msg |-> e.msg, arg |-> e.arg, use |-> e.use]

\* a validation that gives up at the first row that raises
RECURSIVE ValidarAteOErro(_, _, _)
ValidarAteOErro(dados, linhas_ok, errs) ==
    IF dados = <<>> \/ errs # <<>>
    THEN [sucesso |-> Len(errs) = 0, linhas_validas |-> linhas_ok, erros |-> errs]
    ELSE LET row == Head(dados)
             linha_num == Get(row, "_linha", PyInt(0)).n
             patrimonio == _validar_linha(row)
         IN IF patrimonio.ok
            THEN ValidarAteOErro(Tail(dados), Append(linhas_ok, patrimonio), errs)
            ELSE ValidarAteOErro(Tail(dados), linhas_ok,
                                 Append(errs, LinhaErro(linha_num, patrimonio)))

\* validar_dados: the loop over dados, one row after the other
RECURSIVE ValidarLoop(_, _, _)
ValidarLoop(dados, linhas_ok, errs) ==
    IF dados = <<>> THEN [sucesso |-> Len(errs) = 0, linhas_validas |-> linhas_ok,
                          erros |-> errs]
    ELSE LET row == Head(dados)
             linha_num == Get(row, "_linha", PyInt(0)).n
             patrimonio == _validar_linha(row)
         IN IF patrimonio.ok
            THEN ValidarLoop(Tail(dados), Append(linhas_ok, patrimonio), errs)
            ELSE ValidarLoop(Tail(dados), linhas_ok,
                             Append(errs, LinhaErro(linha_num, patrimonio)))

validar_dados(dados) == ValidarLoop(dados, <<>>, <<>>)

----------------------------------------------------------------------------
(* PatrimonioImporter: reading. A file is [ext, linhas]; a physical line is  *)
(* a dict from (normalised) header names to cells. In a CSV file the empty   *)
(* dict is a blank line; an Excel sheet has no blank lines, only rows whose  *)
(* cells are all None.                                                       *)

\* any(row) / any(row.values())
AnyCell(row) == \E c \in DOMAIN row : Truthy(row[c])

\* row_dict = {"_linha": row_idx, **row}
RowDict(row, row_idx) ==
    [c \in DOMAIN row \cup {"_linha"} |-> IF c = "_linha" THEN PyInt(row_idx) ELSE row[c]]

\* for row_idx, row in enumerate(rows, start=2): skip "not any", keep the rest
RECURSIVE LerLoop(_, _)
LerLoop(rows, row_idx) ==
    IF rows = <<>> THEN <<>>
    ELSE IF ~AnyCell(Head(rows)) THEN LerLoop(Tail(rows), row_idx + 1)
         ELSE <<RowDict(Head(rows), row_idx)>> \o LerLoop(Tail(rows), row_idx + 1)

\* csv.DictReader yields nothing for a blank line, so enumerate does not count it
_ler_csv(linhas) == LerLoop(SelectSeq(linhas, LAMBDA r : DOMAIN r # {}), 2)

\* ws.iter_rows(min_row=2, values_only=True) yields every row of the sheet
_ler_excel(linhas) == LerLoop(linhas, 2)

\* ler_planilha returns (sucesso, dados, mensagem)
ler_planilha(arq) ==
    LET dados == IF arq.ext = "csv" THEN _ler_csv(arq.linhas) ELSE _ler_excel(arq.linhas)
        faltando == \E r \in Range(arq.linhas) :
                        DOMAIN r # {} /\ ~(Range(REQUIRED_COLUMNS) \subseteq DOMAIN r)
    IN IF faltando THEN [sucesso |-> FALSE, dados |-> <<>>]
       ELSE IF dados = <<>> THEN [sucesso |-> FALSE, dados |-> <<>>]
       ELSE [sucesso |-> TRUE, dados |-> dados]

----------------------------------------------------------------------------
(* PatrimonioImporter: entity resolution. A cache is a dict from key to id. *)

\* dict[key] = value
Put(d, key, value) == [x \in DOMAIN d \cup {key} |-> IF x = key THEN value ELSE d[x]]

\* name.strip().lower()
nome_lower(nome) == Lower(Strip(nome))

\* f"cnpj:{cnpj}"
cnpj_key(cnpj) == <<"c", "n", "p", "j", ":">> \o cnpj

\* the rows of a table in primary-key order, as SELECT returns them
RECURSIVE PorId(_, _)
PorId(tabela, campo) ==
    IF tabela = {} THEN <<>>
    ELSE LET r == CHOOSE x \in tabela : \A y \in tabela : x[campo] <= y[campo]
         IN <<r>> \o PorId(tabela \ {r}, campo)

\* _carregar_caches, suppliers: the rows are added to the dict the importer
\* already holds
RECURSIVE CarregarFornecedores(_, _)
CarregarFornecedores(cache, rows) ==
    IF rows = <<>> THEN cache
    ELSE LET f == Head(rows)
             c1 == Put(cache, nome_lower(f.nome_fornecedor), f.id_fornecedor)
             c2 == IF f.cnpj # <<>> THEN Put(c1, cnpj_key(Strip(f.cnpj)), f.id_fornecedor)
                   ELSE c1
         IN CarregarFornecedores(c2, Tail(rows))

RECURSIVE CarregarNomes(_, _, _, _)
CarregarNomes(cache, rows, campo_nome, campo_id) ==
    IF rows = <<>> THEN cache
    ELSE CarregarNomes(Put(cache, nome_lower(Head(rows)[campo_nome]), Head(rows)[campo_id]),
                       Tail(rows), campo_nome, campo_id)

\* a priming whose failed SELECT also empties the dict
CacheZeradoAposFalha(cache) == <<>>
\* _carregar_caches, "except: pass" (or the loop over []): the dict is left as
\* it was
CacheAposFalha(cache) == cache

\* the mutant of fornecedor_em_cache below: a lookup that never finds anything
fornecedor_fora_do_cache(cache, linha) == 0

\* _garantir_fornecedor, the lookups: the cached id, 0 on a miss
fornecedor_em_cache(cache, linha) ==
    IF nome_lower(linha.fornecedor_nome) \in DOMAIN cache
    THEN cache[nome_lower(linha.fornecedor_nome)]
    ELSE IF linha.fornecedor_cnpj # <<>> /\ cnpj_key(linha.fornecedor_cnpj) \in DOMAIN cache
         THEN cache[cnpj_key(linha.fornecedor_cnpj)]
         ELSE 0

\* a supplier insert that leaves the cache as it was
cache_sem_fornecedor(cache, linha, fornecedor_id) == cache
\* a supplier insert that records the name key only
cache_so_com_nome(cache, linha, fornecedor_id) ==
    Put(cache, nome_lower(linha.fornecedor_nome), fornecedor_id)
\* _garantir_fornecedor, "Atualizar cache" after the insert
cache_com_fornecedor(cache, linha, fornecedor_id) ==
    LET c1 == Put(cache, nome_lower(linha.fornecedor_nome), fornecedor_id)
    IN IF linha.fornecedor_cnpj # <<>>
       THEN Put(c1, cnpj_key(linha.fornecedor_cnpj), fornecedor_id)
       ELSE c1

\* _garantir_setor / _garantir_categoria, the lookup: the cached id, 0 on a miss
nome_em_cache(cache, nome) ==
    IF nome_lower(nome) \in DOMAIN cache THEN cache[nome_lower(nome)] ELSE 0

\* a resolver that does not remember what it inserted
cache_sem_nome(cache, nome, id) == cache
\* _garantir_setor / _garantir_categoria, "Atualizar cache" after the insert
cache_com_nome(cache, nome, id) == Put(cache, nome_lower(nome), id)

----------------------------------------------------------------------------
(* Bounds and enumerated inputs *)

\* rows in a spreadsheet
MaxLinhas == 3
\* database errors injected in one behaviour
MaxFalhas == 2
\* import runs started in one behaviour
MaxExecucoes == 1

CnpjX == <<"1", "1", ".", "2", "2", "2", ".", "3", "3", "3", "/", "0", "0", "0", "1", "-", "8", "1">>

\* a spreadsheet line with the required columns and the supplier tax id
LinhaPlanilha(fornecedor, cnpj, setor, categoria, status) ==
    [nome |-> PyStr(<<"P", "c">>),
     data_aquisicao |-> PyStr(<<"0", "1", "/", "0", "1", "/", "2", "0", "2", "4">>),
     valor_compra |-> PyStr(<<"1", "0", ",", "5">>),
     categoria |-> PyStr(categoria),
     fornecedor_nome |-> PyStr(fornecedor),
     fornecedor_cnpj |-> PyStr(cnpj),
     setor_local |-> PyStr(setor),
     status |-> PyStr(status)]

LinhasPlanilha ==
    { LinhaPlanilha(<<"A", "b">>, CnpjX, <<"R", "h">>, <<"T", "i">>,
                    <<"a", "t", "i", "v", "o">>),
      LinhaPlanilha(<<"C", "d">>, CnpjX, <<"r", "h">>, <<"H", "w">>,
                    <<" ", "A", "t", "i", "v", "o">>),
      LinhaPlanilha(<<"C", "d">>, <<>>, <<"R", "h">>, <<"T", "i">>,
                    <<"a", "t", "i", "v", "o">>),
      LinhaPlanilha(<<"A", "b">>, <<>>, <<"R", "h">>, <<"T", "i">>,
                    <<"p", "e", "n", "d", "i", "n", "g">>),
      [LinhaPlanilha(<<"A", "b">>, <<>>, <<"R", "h">>, <<"T", "i">>,
                     <<"p", "e", "n", "d", "i", "n", "g">>) EXCEPT !.nome = PyStr(<<>>)] }

\* openpyxl gives None for an empty cell, csv gives the empty string
CelulasExcel(row) == [c \in DOMAIN row |-> IF row[c] = PyStr(<<>>) THEN PyNone ELSE row[c]]

SeqsAte(S, n) == UNION {[1..k -> S] : k \in 0..n}

Arquivos ==
    {[ext |-> "csv", linhas |-> l] : l \in SeqsAte(LinhasPlanilha, MaxLinhas)}
    \cup {[ext |-> "xlsx", linhas |-> [i \in DOMAIN l |-> CelulasExcel(l[i])]] :
            l \in SeqsAte(LinhasPlanilha, MaxLinhas)}

\* what the store holds when the dialog opens: nothing, or one supplier, one
\* sector and one category registered earlier through the CRUD screens
StoreVazio == [fornecedores |-> {}, setores_locais |-> {}, categorias |-> {}]
StoreComCadastros ==
    [fornecedores |-> {[id_fornecedor |-> 1, nome_fornecedor |-> <<"A", "b">>,
                        cnpj |-> CnpjX]},
     setores_locais |-> {[id_setor_local |-> 1, nome_setor_local |-> <<"R", "h">>]},
     categorias |-> {[id_categoria |-> 1, nome_categoria |-> <<"T", "i">>]}]
StoresIniciais == {StoreVazio, StoreComCadastros}

----------------------------------------------------------------------------
(* State after construction *)

NoValidacao == [dados |-> <<>>, sucesso |-> FALSE, linhas_validas |-> <<>>, erros |-> <<>>]
NoResult == [populado |-> FALSE, sucesso |-> FALSE, total_linhas |-> 0, importados |-> 0,
             erros |-> <<>>, fornecedores_criados |-> 0, setores_criados |-> 0,
             categorias_criadas |-> 0]
NoThread == [estado |-> "nenhuma", linhas |-> <<>>, result |-> NoResult]
NoIds == [fornecedor |-> 0, setor |-> 0, categoria |-> 0]
NoVerificacao == [cnpj |-> <<>>, feito |-> FALSE, valido |-> FALSE, mensagem |-> ""]

\* PatrimonioImporter.__init__
ImporterInit ==
    /\ _fornecedores_cache = <<>>
    /\ _setores_cache = <<>>
    /\ _categorias_cache = <<>>

\* ImportPatrimonioDialog.__init__ and _setup_ui
DialogInit ==
    /\ dialogo = "aberto"
    /\ dados_validados = <<>>
    /\ linhas_validas = <<>>
    /\ validacao = NoValidacao
    /\ txt_erros = <<>>
    /\ botoes = [selecionar |-> TRUE, validar |-> FALSE, importar |-> FALSE, fechar |-> TRUE]

FrameInit ==
    /\ thread = NoThread
    /\ pc = "idle"
    /\ idx = 0
    /\ importados = 0
    /\ erros = <<>>
    /\ fornecedores_criados = 0
    /\ setores_criados = 0
    /\ categorias_criadas = 0
    /\ ids = NoIds
    /\ emitidos = <<>>
    /\ inseridos = <<>>
    /\ resolvidos = <<>>
    /\ falhou = {}
    /\ falhas = 0
    /\ execucoes = 0
    /\ fila = <<>>
    /\ recebidos = <<>>
    /\ historico = <<>>
    /\ cargas_falhas = {}

\* no validator has been called on its own
VerificacaoInit == verificacao = NoVerificacao

\* there is no second dialog
SemOutro == <<>>
UmSoDialogo == outro = SemOutro

StoreInit(st) ==
    /\ fornecedores = st.fornecedores
    /\ setores_locais = st.setores_locais
    /\ categorias = st.categorias
    /\ patrimonios = {}
    /\ auto_inc = [fornecedores |-> Cardinality(st.fornecedores) + 1,
                   setores_locais |-> Cardinality(st.setores_locais) + 1,
                   categorias |-> Cardinality(st.categorias) + 1,
                   patrimonios |-> 1]

Init ==
    /\ \E st \in StoresIniciais : StoreInit(st)
    /\ ImporterInit
    /\ DialogInit
    /\ FrameInit
    /\ VerificacaoInit
    /\ UmSoDialogo

----------------------------------------------------------------------------
(* ImportPatrimonioDialog handlers (the UI thread) *)

\* a file selection that keeps the validated rows and the import button of the
\* file loaded before
SelecionarSemDescartar(arquivos, max_execucoes) ==
    /\ dialogo = "aberto"
    /\ botoes.selecionar
    /\ execucoes < max_execucoes
    /\ \E arq \in arquivos :
        LET lido == ler_planilha(arq)
        IN /\ lido.sucesso
           /\ dados_validados' = lido.dados
    /\ txt_erros' = <<>>
    /\ botoes' = [botoes EXCEPT !.validar = TRUE]
    /\ UNCHANGED <<dialogo, thread, linhas_validas, validacao>>
    /\ UNCHANGED <<storeVars, cacheVars, frameVars, histVars>>
    /\ UNCHANGED <<sinalVars, outrasVars>>

\* _selecionar_arquivo: a file that does not read leaves the dialog as it was.
\* The record of the previous validar_dados call is out of scope by then.
SelecionarArquivo(arquivos, max_execucoes) ==
    /\ dialogo = "aberto"
    /\ botoes.selecionar
    /\ execucoes < max_execucoes
    /\ \E arq \in arquivos :
        LET lido == ler_planilha(arq)
        IN /\ lido.sucesso
           /\ dados_validados' = lido.dados
    /\ linhas_validas' = <<>>
    /\ validacao' = NoValidacao
    /\ txt_erros' = <<>>
    /\ botoes' = [botoes EXCEPT !.validar = TRUE, !.importar = FALSE]
    /\ UNCHANGED <<dialogo, thread>>
    /\ UNCHANGED <<storeVars, cacheVars, frameVars, histVars>>
    /\ UNCHANGED <<sinalVars, outrasVars>>

_selecionar_arquivo == SelecionarArquivo(Arquivos, MaxExecucoes)

\* a validation that primes the importer's caches from the store as it goes
_validar_dados_com_caches ==
    /\ dialogo = "aberto"
    /\ botoes.validar
    /\ dados_validados # <<>>
    /\ validacao' = [dados |-> dados_validados] @@ validar_dados(dados_validados)
    /\ IF validacao'.erros # <<>>
       THEN /\ txt_erros' = validacao'.erros
            /\ botoes' = [botoes EXCEPT !.importar = FALSE]
            /\ UNCHANGED linhas_validas
       ELSE /\ linhas_validas' = validacao'.linhas_validas
            /\ txt_erros' = <<>>
            /\ botoes' = [botoes EXCEPT !.importar = TRUE]
    /\ _fornecedores_cache' =
            CarregarFornecedores(_fornecedores_cache, PorId(fornecedores, "id_fornecedor"))
    /\ UNCHANGED <<_setores_cache, _categorias_cache>>
    /\ UNCHANGED <<dialogo, dados_validados, thread>>
    /\ UNCHANGED <<storeVars, frameVars, histVars>>
    /\ UNCHANGED <<sinalVars, outrasVars>>

\* _validar_dados
_validar_dados ==
    /\ dialogo = "aberto"
    /\ botoes.validar
    /\ dados_validados # <<>>
    /\ validacao' = [dados |-> dados_validados] @@ validar_dados(dados_validados)
    /\ IF validacao'.erros # <<>>
       THEN /\ txt_erros' = validacao'.erros
            /\ botoes' = [botoes EXCEPT !.importar = FALSE]
            /\ UNCHANGED linhas_validas
       ELSE /\ linhas_validas' = validacao'.linhas_validas
            /\ txt_erros' = <<>>
            /\ botoes' = [botoes EXCEPT !.importar = TRUE]
    /\ UNCHANGED <<dialogo, dados_validados, thread>>
    /\ UNCHANGED <<storeVars, cacheVars, frameVars, histVars>>
    /\ UNCHANGED <<sinalVars, outrasVars>>

\* an _importar that starts the thread and leaves the buttons as they were
ImportarSemDesabilitar(max_execucoes) ==
    /\ dialogo = "aberto"
    /\ botoes.importar
    /\ linhas_validas # <<>>
    /\ execucoes < max_execucoes
    /\ thread' = [estado |-> "rodando", linhas |-> linhas_validas, result |-> NoResult]
    /\ pc' = "importar"
    /\ execucoes' = execucoes + 1
    /\ UNCHANGED <<dialogo, dados_validados, linhas_validas, validacao, txt_erros, botoes>>
    /\ UNCHANGED <<idx, importados, erros, fornecedores_criados, setores_criados,
                   categorias_criadas, ids, emitidos, inseridos, resolvidos, falhou,
                   falhas>>
    /\ UNCHANGED <<storeVars, cacheVars>>
    /\ recebidos' = <<>>
    /\ UNCHANGED <<fila, outrasVars>>

\* _importar, confirmed with Yes: the buttons are disabled and the thread starts
Importar(max_execucoes) ==
    /\ dialogo = "aberto"
    /\ botoes.importar
    /\ linhas_validas # <<>>
    /\ execucoes < max_execucoes
    /\ botoes' = [selecionar |-> FALSE, validar |-> FALSE, importar |-> FALSE,
                  fechar |-> FALSE]
    /\ thread' = [estado |-> "rodando", linhas |-> linhas_validas, result |-> NoResult]
    /\ pc' = "importar"
    /\ execucoes' = execucoes + 1
    /\ UNCHANGED <<dialogo, dados_validados, linhas_validas, validacao, txt_erros>>
    /\ UNCHANGED <<idx, importados, erros, fornecedores_criados, setores_criados,
                   categorias_criadas, ids, emitidos, inseridos, resolvidos, falhou,
                   falhas>>
    /\ UNCHANGED <<storeVars, cacheVars>>
    /\ recebidos' = <<>>
    /\ UNCHANGED <<fila, outrasVars>>

_importar == Importar(MaxExecucoes)

\* the completion handler connected to progress_updated instead of finished
_importacao_concluida_no_progresso ==
    /\ fila # <<>>
    /\ Head(fila).tipo = "progress"
    /\ fila' = Tail(fila)
    /\ thread' = [thread EXCEPT !.estado = "entregue"]
    /\ botoes' = [botoes EXCEPT !.selecionar = TRUE, !.validar = TRUE, !.fechar = TRUE]
    /\ dialogo' = IF thread.result.sucesso THEN "fechado" ELSE dialogo
    /\ UNCHANGED <<dados_validados, linhas_validas, validacao, txt_erros>>
    /\ UNCHANGED <<storeVars, cacheVars, frameVars, histVars>>
    /\ UNCHANGED <<recebidos, outrasVars>>

\* _importacao_concluida, the slot of the thread's finished signal
_importacao_concluida ==
    /\ fila # <<>>
    /\ Head(fila).tipo = "finished"
    /\ fila' = Tail(fila)
    /\ thread' = [thread EXCEPT !.estado = "entregue"]
    /\ botoes' = [botoes EXCEPT !.selecionar = TRUE, !.validar = TRUE, !.fechar = TRUE]
    /\ dialogo' = IF thread.result.sucesso THEN "fechado" ELSE dialogo
    /\ UNCHANGED <<dados_validados, linhas_validas, validacao, txt_erros>>
    /\ UNCHANGED <<storeVars, cacheVars, frameVars, histVars>>
    /\ UNCHANGED <<recebidos, outrasVars>>

\* a delivery that takes the newest queued progress call first
_atualizar_progresso_fora_de_ordem ==
    /\ \E i \in DOMAIN fila :
          /\ fila[i].tipo = "progress"
          /\ \A j \in DOMAIN fila : fila[j].tipo = "progress" => j <= i
          /\ fila' = SubSeq(fila, 1, i - 1) \o SubSeq(fila, i + 1, Len(fila))
          /\ recebidos' = Append(recebidos, fila[i].atual)
    /\ UNCHANGED <<storeVars, cacheVars, dialogVars, thread, frameVars, histVars,
                   outrasVars>>

\* _atualizar_status and _atualizar_progresso, the slots of the importer's two
\* signals: the label text, then progress_bar.setValue(atual). The two calls
\* are queued one after the other by one loop iteration and are one entry here.
_atualizar_progresso ==
    /\ fila # <<>>
    /\ Head(fila).tipo = "progress"
    /\ fila' = Tail(fila)
    /\ recebidos' = Append(recebidos, Head(fila).atual)
    /\ UNCHANGED <<storeVars, cacheVars, dialogVars, thread, frameVars, histVars,
                   outrasVars>>

\* btn_fechar.clicked -> close
fechar ==
    /\ dialogo = "aberto"
    /\ botoes.fechar
    /\ dialogo' = "fechado"
    /\ UNCHANGED <<dados_validados, linhas_validas, validacao, txt_erros, botoes, thread>>
    /\ UNCHANGED <<storeVars, cacheVars, frameVars, histVars>>
    /\ UNCHANGED <<sinalVars, outrasVars>>

----------------------------------------------------------------------------
(* ImportThread.run -> PatrimonioImporter.importar (the worker thread).      *)
(* pc is the position in importar; a database call either succeeds or raises *)

linha_atual == thread.linhas[idx]

\* a loop that is left as soon as an error has been recorded
ProximoPcAteOErro == IF idx = Len(thread.linhas) \/ erros # <<>> THEN "retornar" ELSE "emit"
\* the for loop moves to the next row, or leaves the loop after the last one
ProximoPc == IF idx = Len(thread.linhas) THEN "retornar" ELSE "emit"

\* a result whose sucesso flag looks at the imported rows instead of the errors
ImportResultOtimista(total, n_importados, lista_erros, n_forn, n_set, n_cat) ==
    [populado |-> TRUE, sucesso |-> n_importados > 0, total_linhas |-> total,
     importados |-> n_importados, erros |-> lista_erros,
     fornecedores_criados |-> n_forn, setores_criados |-> n_set,
     categorias_criadas |-> n_cat]
\* ImportResult(...), with sucesso = len(erros) == 0
ImportResult(total, n_importados, lista_erros, n_forn, n_set, n_cat) ==
    [populado |-> TRUE, sucesso |-> Len(lista_erros) = 0, total_linhas |-> total,
     importados |-> n_importados, erros |-> lista_erros,
     fornecedores_criados |-> n_forn, setores_criados |-> n_set,
     categorias_criadas |-> n_cat]

\* importar up to the loop: the counters, then _carregar_caches. A SELECT that
\* fails gives [] (execute_query swallows the error, fetch_all turns None into
\* []) or raises into "except: pass": that cache keeps what it held.
importar_inicio ==
    /\ pc = "importar"
    /\ \E falha_f, falha_s, falha_c \in BOOLEAN :
        LET n == (IF falha_f THEN 1 ELSE 0) + (IF falha_s THEN 1 ELSE 0)
                 + (IF falha_c THEN 1 ELSE 0)
        IN /\ falhas + n <= MaxFalhas
           /\ falhas' = falhas + n
           /\ cargas_falhas' = (IF falha_f THEN {"fornecedores"} ELSE {})
                    \cup (IF falha_s THEN {"setores_locais"} ELSE {})
                    \cup (IF falha_c THEN {"categorias"} ELSE {})
           /\ _fornecedores_cache' =
                IF falha_f THEN CacheAposFalha(_fornecedores_cache)
                ELSE CarregarFornecedores(_fornecedores_cache,
                                          PorId(fornecedores, "id_fornecedor"))
           /\ _setores_cache' =
                IF falha_s THEN CacheAposFalha(_setores_cache)
                ELSE CarregarNomes(_setores_cache, PorId(setores_locais, "id_setor_local"),
                                   "nome_setor_local", "id_setor_local")
           /\ _categorias_cache' =
                IF falha_c THEN CacheAposFalha(_categorias_cache)
                ELSE CarregarNomes(_categorias_cache, PorId(categorias, "id_categoria"),
                                   "nome_categoria", "id_categoria")
    /\ idx' = 0
    /\ importados' = 0
    /\ erros' = <<>>
    /\ fornecedores_criados' = 0
    /\ setores_criados' = 0
    /\ categorias_criadas' = 0
    /\ ids' = NoIds
    /\ emitidos' = <<>>
    /\ inseridos' = <<>>
    /\ resolvidos' = <<>>
    /\ falhou' = {}
    /\ pc' = "emit"
    /\ UNCHANGED <<storeVars, dialogVars, thread, execucoes>>
    /\ UNCHANGED <<sinalVars, historico, verificacao, outro>>

\* a signal emitted on the worker thread for a slot of the dialog: a queued call
Sinal(tipo, atual, total) == [tipo |-> tipo, atual |-> atual, total |-> total]

\* what a finished run leaves behind on its importer
Execucao ==
    [linhas |-> thread.linhas, inseridos |-> inseridos, resolvidos |-> resolvidos,
     falhou |-> falhou]

\* the head of the loop body: status_updated.emit, progress_updated.emit(idx, total)
emitir ==
    /\ pc = "emit"
    /\ idx' = idx + 1
    /\ emitidos' = Append(emitidos, idx + 1)
    /\ pc' = "fornecedor"
    /\ fila' = Append(fila, Sinal("progress", idx + 1, Len(thread.linhas)))
    /\ UNCHANGED <<importados, erros, fornecedores_criados, setores_criados,
                   categorias_criadas, ids>>
    /\ UNCHANGED <<storeVars, cacheVars, dialogVars, thread, histVars>>
    /\ UNCHANGED <<recebidos, outrasVars>>

\* an exception handler placed around the loop instead of inside it: the first
\* failing row ends the run
ExcecaoForaDoLaco ==
    /\ falhas < MaxFalhas
    /\ falhas' = falhas + 1
    /\ erros' = Append(erros, [linha |-> linha_atual.linha, msg |-> "erro do banco"])
    /\ falhou' = falhou \cup {idx}
    /\ ids' = NoIds
    /\ pc' = "retornar"
    /\ UNCHANGED <<idx, importados, fornecedores_criados, setores_criados,
                   categorias_criadas, emitidos, inseridos, resolvidos, execucoes>>
    /\ UNCHANGED <<storeVars, cacheVars, dialogVars, thread>>
\* a handler around each call instead of around the row: the error is recorded
\* and the row goes on to its asset insert
ExcecaoPorChamada ==
    /\ falhas < MaxFalhas
    /\ falhas' = falhas + 1
    /\ erros' = Append(erros, [linha |-> linha_atual.linha, msg |-> "erro do banco"])
    /\ falhou' = falhou \cup {idx}
    /\ ids' = IF pc = "patrimonio" THEN NoIds ELSE ids
    /\ pc' = IF pc = "patrimonio" THEN ProximoPc ELSE "patrimonio"
    /\ UNCHANGED <<idx, importados, fornecedores_criados, setores_criados,
                   categorias_criadas, emitidos, inseridos, resolvidos, execucoes>>
    /\ UNCHANGED <<storeVars, cacheVars, dialogVars, thread>>
\* except Exception as e: erros.append(f"Linha {linha.linha}: {str(e)}")
Excecao ==
    /\ falhas < MaxFalhas
    /\ falhas' = falhas + 1
    /\ erros' = Append(erros, [linha |-> linha_atual.linha, msg |-> "erro do banco"])
    /\ falhou' = falhou \cup {idx}
    /\ ids' = NoIds
    /\ pc' = ProximoPc
    /\ UNCHANGED <<idx, importados, fornecedores_criados, setores_criados,
                   categorias_criadas, emitidos, inseridos, resolvidos, execucoes>>
    /\ UNCHANGED <<storeVars, cacheVars, dialogVars, thread>>

Inserido(tabela, id, chave) == [tabela |-> tabela, id |-> id, chave |-> chave, idx |-> idx]

\* the (id, criado) pair a _garantir_* call returned for the current row
Resolvido(tabela, id, criado) == [tabela |-> tabela, idx |-> idx, id |-> id, criado |-> criado]

\* 1. _garantir_fornecedor and "if criado: fornecedores_criados += 1"
_garantir_fornecedor ==
    /\ pc = "fornecedor"
    /\ LET achado == fornecedor_em_cache(_fornecedores_cache, linha_atual)
           fornecedor_id == auto_inc.fornecedores
       IN \/ /\ achado # 0
             /\ ids' = [ids EXCEPT !.fornecedor = achado]
             /\ resolvidos' = Append(resolvidos, Resolvido("fornecedores", achado, FALSE))
             /\ pc' = "setor"
             /\ UNCHANGED <<fornecedores, auto_inc, _fornecedores_cache,
                            fornecedores_criados, inseridos, erros, falhou, falhas>>
          \/ /\ achado = 0
             /\ fornecedores' = fornecedores \cup
                    {[id_fornecedor |-> fornecedor_id,
                      nome_fornecedor |-> linha_atual.fornecedor_nome,
                      cnpj |-> linha_atual.fornecedor_cnpj]}
             /\ auto_inc' = [auto_inc EXCEPT !.fornecedores = @ + 1]
             /\ _fornecedores_cache' =
                    cache_com_fornecedor(_fornecedores_cache, linha_atual, fornecedor_id)
             /\ fornecedores_criados' = fornecedores_criados + 1
             /\ inseridos' = Append(inseridos,
                    Inserido("fornecedores", fornecedor_id,
                             nome_lower(linha_atual.fornecedor_nome)))
             /\ ids' = [ids EXCEPT !.fornecedor = fornecedor_id]
             /\ resolvidos' = Append(resolvidos, Resolvido("fornecedores", fornecedor_id, TRUE))
             /\ pc' = "setor"
             /\ UNCHANGED <<erros, falhou, falhas>>
          \/ /\ achado = 0
             /\ Excecao
    /\ UNCHANGED <<setores_locais, categorias, patrimonios, _setores_cache,
                   _categorias_cache, idx, importados, setores_criados,
                   categorias_criadas, emitidos, execucoes, dialogVars, thread>>
    /\ UNCHANGED <<sinalVars, outrasVars>>

\* 2. _garantir_setor and "if criado: setores_criados += 1"
_garantir_setor ==
    /\ pc = "setor"
    /\ LET achado == nome_em_cache(_setores_cache, linha_atual.setor_local)
           setor_id == auto_inc.setores_locais
       IN \/ /\ achado # 0
             /\ ids' = [ids EXCEPT !.setor = achado]
             /\ resolvidos' = Append(resolvidos, Resolvido("setores_locais", achado, FALSE))
             /\ pc' = "categoria"
             /\ UNCHANGED <<setores_locais, auto_inc, _setores_cache, setores_criados,
                            inseridos, erros, falhou, falhas>>
          \/ /\ achado = 0
             /\ setores_locais' = setores_locais \cup
                    {[id_setor_local |-> setor_id,
                      nome_setor_local |-> linha_atual.setor_local]}
             /\ auto_inc' = [auto_inc EXCEPT !.setores_locais = @ + 1]
             /\ _setores_cache' =
                    cache_com_nome(_setores_cache, linha_atual.setor_local, setor_id)
             /\ setores_criados' = setores_criados + 1
             /\ inseridos' = Append(inseridos,
                    Inserido("setores_locais", setor_id,
                             nome_lower(linha_atual.setor_local)))
             /\ ids' = [ids EXCEPT !.setor = setor_id]
             /\ resolvidos' = Append(resolvidos, Resolvido("setores_locais", setor_id, TRUE))
             /\ pc' = "categoria"
             /\ UNCHANGED <<erros, falhou, falhas>>
          \/ /\ achado = 0
             /\ Excecao
    /\ UNCHANGED <<fornecedores, categorias, patrimonios, _fornecedores_cache,
                   _categorias_cache, idx, importados, fornecedores_criados,
                   categorias_criadas, emitidos, execucoes, dialogVars, thread>>
    /\ UNCHANGED <<sinalVars, outrasVars>>

\* 3. _garantir_categoria and "if criado: categorias_criadas += 1"
_garantir_categoria ==
    /\ pc = "categoria"
    /\ LET achado == nome_em_cache(_categorias_cache, linha_atual.categoria)
           categoria_id == auto_inc.categorias
       IN \/ /\ achado # 0
             /\ ids' = [ids EXCEPT !.categoria = achado]
             /\ resolvidos' = Append(resolvidos, Resolvido("categorias", achado, FALSE))
             /\ pc' = "patrimonio"
             /\ UNCHANGED <<categorias, auto_inc, _categorias_cache, categorias_criadas,
                            inseridos, erros, falhou, falhas>>
          \/ /\ achado = 0
             /\ categorias' = categorias \cup
                    {[id_categoria |-> categoria_id,
                      nome_categoria |-> linha_atual.categoria]}
             /\ auto_inc' = [auto_inc EXCEPT !.categorias = @ + 1]
             /\ _categorias_cache' =
                    cache_com_nome(_categorias_cache, linha_atual.categoria, categoria_id)
             /\ categorias_criadas' = categorias_criadas + 1
             /\ inseridos' = Append(inseridos,
                    Inserido("categorias", categoria_id,
                             nome_lower(linha_atual.categoria)))
             /\ ids' = [ids EXCEPT !.categoria = categoria_id]
             /\ resolvidos' = Append(resolvidos, Resolvido("categorias", categoria_id, TRUE))
             /\ pc' = "patrimonio"
             /\ UNCHANGED <<erros, falhou, falhas>>
          \/ /\ achado = 0
             /\ Excecao
    /\ UNCHANGED <<fornecedores, setores_locais, patrimonios, _fornecedores_cache,
                   _setores_cache, idx, importados, fornecedores_criados,
                   setores_criados, emitidos, execucoes, dialogVars, thread>>
    /\ UNCHANGED <<sinalVars, outrasVars>>

\* 4. _criar_patrimonio and "importados += 1"
_criar_patrimonio ==
    /\ pc = "patrimonio"
    /\ \/ /\ patrimonios' = patrimonios \cup
                {[id_patrimonio |-> auto_inc.patrimonios,
                  nome |-> linha_atual.nome,
                  data_aquisicao |-> linha_atual.data_aquisicao,
                  valor_compra |-> linha_atual.valor_compra,
                  quantidade |-> linha_atual.quantidade,
                  estado_conservacao |-> linha_atual.estado_conservacao,
                  id_categoria |-> ids.categoria,
                  id_fornecedor |-> ids.fornecedor,
                  id_setor_local |-> ids.setor,
                  status |-> linha_atual.status]}
          /\ auto_inc' = [auto_inc EXCEPT !.patrimonios = @ + 1]
          /\ inseridos' = Append(inseridos,
                Inserido("patrimonios", auto_inc.patrimonios, linha_atual.nome))
          /\ importados' = importados + 1
          /\ ids' = NoIds
          /\ pc' = ProximoPc
          /\ UNCHANGED <<erros, resolvidos, falhou, falhas>>
       \/ /\ Excecao
          /\ UNCHANGED <<patrimonios, auto_inc>>
    /\ UNCHANGED <<fornecedores, setores_locais, categorias, cacheVars, idx,
                   fornecedores_criados, setores_criados, categorias_criadas,
                   emitidos, execucoes, dialogVars, thread>>
    /\ UNCHANGED <<sinalVars, outrasVars>>

\* the return of importar, stored by ImportThread.run in self.result
importar_retorno ==
    /\ pc = "retornar"
    /\ thread' = [thread EXCEPT
                    !.estado = "terminada",
                    !.result = ImportResult(Len(thread.linhas), importados, erros,
                                            fornecedores_criados, setores_criados,
                                            categorias_criadas)]
    /\ pc' = "idle"
    /\ UNCHANGED <<idx, importados, erros, fornecedores_criados, setores_criados,
                   categorias_criadas, ids, emitidos>>
    /\ UNCHANGED <<storeVars, cacheVars, dialogo, dados_validados, linhas_validas,
                   validacao, txt_erros, botoes, histVars>>
    /\ fila' = Append(fila, Sinal("finished", 0, 0))
    /\ historico' = Append(historico, Execucao)
    /\ UNCHANGED <<recebidos, verificacao, cargas_falhas, outro>>

\* a new ImportPatrimonioDialog, with its own PatrimonioImporter, over the same store
novo_dialogo ==
    /\ dialogo = "fechado"
    /\ execucoes < MaxExecucoes
    /\ dialogo' = "aberto"
    /\ dados_validados' = <<>>
    /\ linhas_validas' = <<>>
    /\ validacao' = NoValidacao
    /\ txt_erros' = <<>>
    /\ botoes' = [selecionar |-> TRUE, validar |-> FALSE, importar |-> FALSE,
                  fechar |-> TRUE]
    /\ _fornecedores_cache' = <<>>
    /\ _setores_cache' = <<>>
    /\ _categorias_cache' = <<>>
    /\ thread' = NoThread
    /\ recebidos' = <<>>
    /\ historico' = <<>>
    /\ UNCHANGED <<storeVars, frameVars, histVars, fila, verificacao, cargas_falhas,
                   outro>>

Next ==
    \/ _selecionar_arquivo
    \/ _validar_dados
    \/ _importar
    \/ importar_inicio
    \/ emitir
    \/ _garantir_fornecedor
    \/ _garantir_setor
    \/ _garantir_categoria
    \/ _criar_patrimonio
    \/ importar_retorno
    \/ _atualizar_progresso
    \/ _importacao_concluida
    \/ fechar
    \/ novo_dialogo

Spec == Init /\ [][Next]_vars

----------------------------------------------------------------------------
(* Runs repeated on one importer (SpecReexecucao): the dialog stays open after *)
(* a run with errors, and the suppliers screen can delete between the runs     *)

MaxReexecucoes == 2
MaxExclusoes == 1

\* csv files of one or two rows that differ in every entity name but the sector
ArquivosReexecucao ==
    {[ext |-> "csv", linhas |-> l] :
        l \in SeqsAte({LinhaPlanilha(<<"A", "b">>, CnpjX, <<"R", "h">>, <<"T", "i">>,
                                     <<"a", "t", "i", "v", "o">>),
                       LinhaPlanilha(<<"C", "d">>, <<>>, <<"r", "h">>, <<"H", "w">>,
                                     <<"a", "t", "i", "v", "o">>)}, 2) \ {<<>>}}

\* FornecedoresController._handle_excluir, confirmed with Yes, while no run is
\* in progress: DELETE FROM fornecedores WHERE id = current_id. Error 1451 (a
\* patrimonio still refers to the supplier) rolls back and changes nothing.
_handle_excluir ==
    /\ pc = "idle"
    /\ thread.estado \in {"nenhuma", "entregue"}
    /\ Cardinality({i \in 1..(auto_inc.fornecedores - 1) :
                        \A f \in fornecedores : f.id_fornecedor # i}) < MaxExclusoes
    /\ \E f \in fornecedores :
        /\ \A p \in patrimonios : p.id_fornecedor # f.id_fornecedor
        /\ fornecedores' = fornecedores \ {f}
    /\ UNCHANGED <<setores_locais, categorias, patrimonios, auto_inc>>
    /\ UNCHANGED <<cacheVars, dialogVars, thread, frameVars, histVars, sinalVars,
                   outrasVars>>

NextReexecucao ==
    \/ SelecionarArquivo(ArquivosReexecucao, MaxReexecucoes)
    \/ _validar_dados
    \/ Importar(MaxReexecucoes)
    \/ importar_inicio
    \/ emitir
    \/ _garantir_fornecedor
    \/ _garantir_setor
    \/ _garantir_categoria
    \/ _criar_patrimonio
    \/ importar_retorno
    \/ _atualizar_progresso
    \/ _importacao_concluida
    \/ _handle_excluir

SpecReexecucao == Init /\ [][NextReexecucao]_vars

----------------------------------------------------------------------------
(* Validation on its own: the dialog has just read a sheet whose rows differ  *)
(* from a valid row in one cell (or in two, for the order of the checks).     *)

\* rows in a sheet under validation
MaxLinhasValidar == 2

LinhaModelo ==
    [nome |-> PyStr(<<"P", "c">>),
     descricao |-> PyStr(<<>>),
     numero_serie |-> PyStr(<<>>),
     data_aquisicao |-> PyStr(<<"1", "5", "/", "1", "1", "/", "2", "0", "2", "5">>),
     valor_compra |-> PyStr(<<"1", "0", ",", "5">>),
     quantidade |-> PyStr(<<"1">>),
     numero_nota |-> PyStr(<<>>),
     estado_conservacao |-> PyStr(<<"n", "o", "v", "o">>),
     categoria |-> PyStr(<<"T", "i">>),
     fornecedor_nome |-> PyStr(<<"A", "b">>),
     fornecedor_cnpj |-> PyStr(CnpjX),
     fornecedor_telefone |-> PyStr(<<"(", "1", "1", ")", " ", "9", "8", "7", "6", "5", "-",
                                     "4", "3", "2", "1">>),
     fornecedor_email |-> PyStr(<<"a", "@", "b", ".", "c", "o">>),
     fornecedor_inscricao |-> PyStr(<<>>),
     fornecedor_contato |-> PyStr(<<>>),
     fornecedor_observacoes |-> PyStr(<<>>),
     setor_local |-> PyStr(<<"R", "h">>),
     status |-> PyStr(<<"a", "t", "i", "v", "o">>)]

Alternativas ==
    [nome |-> {PyStr(<<>>),
           PyStr(<<" ", " ">>),
           PyNone},
     data_aquisicao |-> {PyStr(<<>>),
           PyNone,
           PyStr(<<"n", "o", "t", "-", "a", "-", "d", "a", "t", "e">>),
           PyStr(<<"3", "0", "/", "0", "2", "/", "2", "0", "2", "4">>),
           PyStr(<<"2", "0", "2", "4", "-", "0", "2", "-", "2", "9">>),
           PyDate(20240229)},
     valor_compra |-> {PyStr(<<>>),
           PyNone,
           PyStr(<<"-", "5", ",", "0", "0">>),
           PyStr(<<"R", "$", " ", "1", ".", "2", "3", "4", ",", "5", "6">>),
           PyStr(<<"3", "5", "0", "0", ".", "0", "0">>),
           PyFloat(35000, 1),
           PyInt(-2),
           PyStr(<<"1", ",", "5", ",", "5">>)},
     quantidade |-> {PyStr(<<>>),
           PyNone,
           PyStr(<<"0">>),
           PyStr(<<"-", "1">>),
           PyStr(<<"2", ".", "5">>),
           PyInt(3)},
     categoria |-> {PyStr(<<>>),
           PyNone},
     fornecedor_nome |-> {PyStr(<<>>),
           PyNone},
     fornecedor_cnpj |-> {PyStr(<<>>),
           PyNone,
           PyStr(<<"1", "2", ".", "3", "4", "5", ".", "6", "7", "8", "/", "0", "0", "0", "1", "-", "9", "9">>),
           PyStr(<<"1", "2", "3">>)},
     fornecedor_telefone |-> {PyStr(<<>>),
           PyNone,
           PyStr(<<"(", "1", "1", ")", " ", "1", "2", "3", "4">>)},
     fornecedor_email |-> {PyStr(<<>>),
           PyNone,
           PyStr(<<"a", "b", ".", "c", "o">>)},
     setor_local |-> {PyStr(<<>>),
           PyNone},
     status |-> {PyStr(<<>>),
           PyNone,
           PyStr(<<"p", "e", "n", "d", "i", "n", "g">>),
           PyStr(<<" ", "A", "t", "i", "v", "o", " ">>),
           PyStr(<<"B", "A", "I", "X", "A", "D", "O">>)},
     estado_conservacao |-> {PyStr(<<>>),
           PyNone,
           PyStr(<<"N", "o", "v", "o">>),
           PyStr(<<"o", "t", "i", "m", "o">>)}]

Com(row, coluna, celula) == [row EXCEPT ![coluna] = celula]

LinhasValidar ==
    {LinhaModelo}
    \cup UNION {{Com(LinhaModelo, c, v) : v \in Alternativas[c]} : c \in DOMAIN Alternativas}
    \cup {Com(Com(LinhaModelo, "nome", PyStr(<<>>)), "status",
              PyStr(<<"p", "e", "n", "d", "i", "n", "g">>)),
          Com(Com(LinhaModelo, "status", PyStr(<<"p", "e", "n", "d", "i", "n", "g">>)),
              "estado_conservacao", PyStr(<<"o", "t", "i", "m", "o">>))}

\* a csv file holds text only (and None where a line is short); a sheet holds
\* text, numbers, dates and None
SoTexto(row) == \A c \in DOMAIN row : row[c].t \in {"str", "None"}

ArquivosValidar ==
    {[ext |-> "csv", linhas |-> l] :
        l \in SeqsAte({r \in LinhasValidar : SoTexto(r)}, MaxLinhasValidar)}
    \cup {[ext |-> "xlsx", linhas |-> l] : l \in SeqsAte(LinhasValidar, MaxLinhasValidar)}

\* the dialog after _selecionar_arquivo has read arq
Selecionado(arq) ==
    /\ dialogo = "aberto"
    /\ dados_validados = ler_planilha(arq).dados
    /\ linhas_validas = <<>>
    /\ validacao = NoValidacao
    /\ txt_erros = <<>>
    /\ botoes = [selecionar |-> TRUE, validar |-> TRUE, importar |-> FALSE, fechar |-> TRUE]

InitValidar ==
    /\ StoreInit(StoreComCadastros)
    /\ ImporterInit
    /\ FrameInit
    /\ VerificacaoInit
    /\ UmSoDialogo
    /\ \E arq \in ArquivosValidar : ler_planilha(arq).sucesso /\ Selecionado(arq)

NextValidar == _validar_dados

SpecValidar == InitValidar /\ [][NextValidar]_vars

----------------------------------------------------------------------------
(* Properties of an import run (Spec)                                         *)

Entidades == {"fornecedores", "setores_locais", "categorias"}

\* the cache key under which a validated row names an entity of a table
ChaveDaLinha(tabela, l) ==
    CASE tabela = "fornecedores" -> nome_lower(l.fornecedor_nome)
      [] tabela = "setores_locais" -> nome_lower(l.setor_local)
      [] tabela = "categorias" -> nome_lower(l.categoria)

Criados(tabela) ==
    CASE tabela = "fornecedores" -> fornecedores_criados
      [] tabela = "setores_locais" -> setores_criados
      [] tabela = "categorias" -> categorias_criadas

InsercoesDe(tabela) == {i \in DOMAIN inseridos : inseridos[i].tabela = tabela}

\* the rows of the run that went through all four steps
Completas ==
    {k \in DOMAIN thread.linhas :
        /\ \A tabela \in Entidades :
              \E i \in DOMAIN resolvidos :
                  resolvidos[i].tabela = tabela /\ resolvidos[i].idx = k
        /\ \E i \in InsercoesDe("patrimonios") : inseridos[i].idx = k}

\* C1: within one run of importar, for each of supplier, sector and category,
\* a name (compared trimmed and lower-cased) is inserted into the store at most
\* once however many rows carry it, and the created counter of that kind
\* counts exactly one per inserted name.
C1_UmaInsercaoPorNome ==
    \A tabela \in Entidades :
        /\ \A i, j \in InsercoesDe(tabela) :
              inseridos[i].chave = inseridos[j].chave => i = j
        /\ Criados(tabela) = Cardinality({inseridos[i].chave : i \in InsercoesDe(tabela)})

\* a finished run in which some inserted name is carried by two rows or more
C1_Witness ==
    /\ thread.estado = "terminada"
    /\ \E tabela \in Entidades : \E i \in InsercoesDe(tabela) :
          /\ Cardinality({k \in DOMAIN thread.linhas :
                            ChaveDaLinha(tabela, thread.linhas[k]) = inseridos[i].chave}) >= 2
          /\ Criados(tabela) = 1

\* C2: a row whose resolution or insert raises does not end the run: when
\* importar returns, every row has been reached, each failed row has exactly
\* one error entry carrying its source line, every other row has had its asset
\* inserted, and importados counts those other rows.
C2_FalhaIsolada ==
    thread.estado = "terminada" =>
        LET r == thread.result
            n == Len(thread.linhas)
        IN /\ idx = n
           /\ Len(r.erros) = Cardinality(falhou)
           /\ \A k \in falhou :
                 Cardinality({e \in DOMAIN r.erros :
                                r.erros[e].linha = thread.linhas[k].linha}) = 1
           /\ \A k \in (1..n) \ falhou :
                 \E i \in InsercoesDe("patrimonios") : inseridos[i].idx = k
           /\ r.importados = n - Cardinality(falhou)

\* three rows, the category creation of row 2 raised: two imported, one error
C2_Witness ==
    /\ thread.estado = "terminada"
    /\ Len(thread.linhas) = 3
    /\ falhou = {2}
    /\ \E i \in DOMAIN resolvidos :
          resolvidos[i].idx = 2 /\ resolvidos[i].tabela = "setores_locais"
    /\ \A i \in DOMAIN resolvidos :
          resolvidos[i].idx = 2 => resolvidos[i].tabela # "categorias"
    /\ thread.result.importados = 2
    /\ Len(thread.result.erros) = 1
    /\ thread.result.erros[1].linha = thread.linhas[2].linha

MesmoPar(a, b) ==
    a.fornecedor_nome = b.fornecedor_nome /\ a.fornecedor_cnpj = b.fornecedor_cnpj

\* resolvidos holds the resolutions of the rows of thread.linhas
DaExecucao == thread.estado # "nenhuma" /\ pc # "importar"

\* C3: two resolutions of the same (supplier name, tax id) pair in one run
\* return the same supplier id, and the later one inserts nothing and reports
\* created = False.
C3_MesmoParMesmoId ==
    DaExecucao =>
        \A a, b \in DOMAIN resolvidos :
            (/\ a < b
             /\ resolvidos[a].tabela = "fornecedores"
             /\ resolvidos[b].tabela = "fornecedores"
             /\ MesmoPar(thread.linhas[resolvidos[a].idx], thread.linhas[resolvidos[b].idx]))
            => /\ resolvidos[b].id = resolvidos[a].id
               /\ ~resolvidos[b].criado

\* the half of C3 that the code keeps: the later resolution of a pair never inserts
C3_SegundaNaoInsere ==
    DaExecucao =>
        \A a, b \in DOMAIN resolvidos :
            (/\ a < b
             /\ resolvidos[a].tabela = "fornecedores"
             /\ resolvidos[b].tabela = "fornecedores"
             /\ MesmoPar(thread.linhas[resolvidos[a].idx], thread.linhas[resolvidos[b].idx]))
            => ~resolvidos[b].criado

StatusDe(row) == Lower(Strip(ToStr(row.status)))

\* the row passes every rule once its status is put right
SoStatusFalha(row) ==
    _validar_linha([row EXCEPT !.status = PyStr(<<"a", "t", "i", "v", "o">>)]).ok

C8_ResultadoCompleto ==
    thread.estado \in {"terminada", "entregue"} =>
        LET r == thread.result
        IN /\ r.populado
           /\ r.sucesso <=> (r.erros = <<>>)
           /\ r.total_linhas = Len(thread.linhas)
           /\ r.importados = Cardinality(Completas)
           /\ Len(r.erros) = r.total_linhas - r.importados
           /\ r.fornecedores_criados = fornecedores_criados
           /\ r.setores_criados = setores_criados
           /\ r.categorias_criadas = categorias_criadas

\* a returned result of a run in which some rows were imported and one failed
C8_Witness ==
    /\ thread.estado = "terminada"
    /\ thread.result.populado
    /\ ~thread.result.sucesso
    /\ thread.result.importados >= 1
    /\ Len(thread.result.erros) >= 1
    /\ thread.result.total_linhas = 3

\* C10: a validation step (validar_dados called by the dialog) leaves the
\* store tables and the three entity caches as they were, whether the rows
\* are valid or not.
C10_ValidarNaoEscreve ==
    [][(UNCHANGED <<dialogo, dados_validados, thread, pc>> /\ _validar_dados)
            => UNCHANGED <<storeVars, cacheVars>>]_vars

\* a validation that ran over a store and caches that hold something: only a
\* validation step re-enables the import after a run has been delivered
C10_Witness ==
    /\ thread.estado = "entregue"
    /\ botoes.importar
    /\ _fornecedores_cache # <<>>
    /\ fornecedores # {}
    /\ patrimonios # {}

----------------------------------------------------------------------------
(* The purchase value on its own: a one-row csv file whose valor_compra cell  *)
(* is any text over the characters of the money format, up to MaxValorLen,    *)
(* or one of the longer examples.                                             *)

\* characters in an enumerated valor_compra cell
MaxValorLen == 4

AlfabetoValor == {"R", "$", " ", ".", ",", "-", "0", "1"}

ValoresExemplo ==
    {<<"R", "$", " ", "1", ".", "2", "3", "4", ",", "5", "6">>,
     <<"1", ".", "2", "3", "4", ",", "5", "6">>,
     <<"R", "$", "1", ".", "2", "3", "4">>,
     <<"1", "2", ".", "3", "4", "5", ",", "6">>,
     <<"1", ".", "2", "3", "4", ".", "5", "6", "7", ",", "8">>,
     <<"3", "5", "0", "0", ".", "0", "0">>,
     <<"-", "5", ",", "0", "0">>,
     <<"R", "$", " ", "-", "1", ".", "2", "3", "4", ",", "5", "6">>,
     <<"1", ".", "2", "3", ",", "4">>,
     <<"R", "$", " ", "0", ",", "9", "9">>,
     <<"1", "2", "3", "4", ",", "5">>,
     <<"-", "0", ",", "0", "0">>,
     <<"1", "0", ",", "5">>,
     <<"R", "$">>,
     <<"1", ",", "5", ",", "5">>,
     <<"0", "0", "0", "1">>,
     <<"1", " ", "0">>,
     <<"1", ".", " ", "5">>}

Valores == SeqsAte(AlfabetoValor, MaxValorLen) \cup ValoresExemplo

LinhaValor(valor) ==
    [LinhaPlanilha(<<"A", "b">>, <<>>, <<"R", "h">>, <<"T", "i">>,
                   <<"a", "t", "i", "v", "o">>) EXCEPT !.valor_compra = PyStr(valor)]

InitValor ==
    /\ StoreInit(StoreVazio)
    /\ ImporterInit
    /\ FrameInit
    /\ VerificacaoInit
    /\ UmSoDialogo
    /\ \E valor \in Valores :
          Selecionado([ext |-> "csv", linhas |-> <<LinhaValor(valor)>>])

NextValor == _validar_dados

SpecValor == InitValor /\ [][NextValor]_vars

----------------------------------------------------------------------------
(* Properties of validation (SpecValidar, SpecValor)                          *)

Validou == validacao.dados # <<>>

LinhaDe(row) == row["_linha"].n

\* the row was returned as a PatrimonioImportRow / was reported in erros
Aceita(row) == \E v \in Range(validacao.linhas_validas) : v.linha = LinhaDe(row)
ErrosDe(row) == {e \in DOMAIN validacao.erros : validacao.erros[e].linha = LinhaDe(row)}

\* C4: validar_dados returns one PatrimonioImportRow for each input row that
\* passes _validar_linha, in the order of the input, and reports every other
\* row: no row after an invalid one is left unexamined.
C4_UmaPorLinhaValida ==
    Validou =>
        LET passam == SelectSeq(validacao.dados, LAMBDA r : _validar_linha(r).ok)
        IN /\ Len(validacao.linhas_validas) = Len(passam)
           /\ \A k \in DOMAIN passam :
                 validacao.linhas_validas[k] = _validar_linha(passam[k])
           /\ \A k \in DOMAIN validacao.dados :
                 ~_validar_linha(validacao.dados[k]).ok =>
                     Cardinality(ErrosDe(validacao.dados[k])) = 1
           /\ Len(validacao.linhas_validas) + Len(validacao.erros) = Len(validacao.dados)

\* an invalid row followed by a valid one: the valid one is still returned
C4_Witness ==
    /\ Len(validacao.dados) = 2
    /\ ~_validar_linha(validacao.dados[1]).ok
    /\ Len(validacao.erros) = 1
    /\ Len(validacao.linhas_validas) = 1
    /\ validacao.linhas_validas[1].linha = LinhaDe(validacao.dados[2])

\* the cell holds no value: empty text (csv) or None (an empty Excel cell)
SemValor(celula) == celula = PyStr(<<>>) \/ celula = PyNone

FaltaObrigatorio(row) == \E c \in Range(REQUIRED_COLUMNS) : SemValor(row[c])

\* C5: a row with no value in a required column, be the cell empty text or
\* None, is not returned as valid and has exactly one error entry, and the
\* number of errors is the number of rows not returned.
C5_ObrigatorioAusente ==
    Validou =>
        /\ \A k \in DOMAIN validacao.dados :
              FaltaObrigatorio(validacao.dados[k]) =>
                  /\ ~Aceita(validacao.dados[k])
                  /\ Cardinality(ErrosDe(validacao.dados[k])) = 1
        /\ Len(validacao.erros) =
              Cardinality({k \in DOMAIN validacao.dados : ~Aceita(validacao.dados[k])})

\* the supplier contact cells of the row that their validator reports invalid
TemTexto(row, coluna) == row[coluna].t = "str" /\ StrCampo(row, coluna) # <<>>

ContatoInvalido(row) ==
    \/ /\ TemTexto(row, "fornecedor_cnpj")
       /\ ~validar_cnpj(StrCampo(row, "fornecedor_cnpj"))[1]
    \/ /\ TemTexto(row, "fornecedor_telefone")
       /\ ~validar_telefone(StrCampo(row, "fornecedor_telefone"))[1]
    \/ /\ TemTexto(row, "fornecedor_email")
       /\ ~validar_email(StrCampo(row, "fornecedor_email"))[1]

\* C7: a row carrying a CNPJ, phone or e-mail that validar_cnpj,
\* validar_telefone or validar_email reports invalid is not returned as valid
\* and has an error entry.
C7_ContatoInvalidoRejeitado ==
    Validou =>
        \A k \in DOMAIN validacao.dados :
            ContatoInvalido(validacao.dados[k]) =>
                /\ ~Aceita(validacao.dados[k])
                /\ ErrosDe(validacao.dados[k]) # {}

\* the text without the currency symbol and the blanks around it
SemPrefixo(s) ==
    LET u == Strip(s)
    IN IF Len(u) >= 2 /\ SubSeq(u, 1, 2) = <<"R", "$">> THEN Strip(SubSeq(u, 3, Len(u)))
       ELSE u

ParteInteira(b) == IF Find(b, ",") = 0 THEN b ELSE SubSeq(b, 1, Find(b, ",") - 1)
ParteDecimal(b) == IF Find(b, ",") = 0 THEN <<>> ELSE SubSeq(b, Find(b, ",") + 1, Len(b))

\* digits, or groups of three digits set off by dots after a first group of
\* one to three
InteiraBR(int) ==
    LET g == Split(int, ".")
    IN /\ g[1] # <<>>
       /\ AllDigits(g[1])
       /\ Len(g) > 1 => Len(g[1]) <= 3
       /\ \A i \in 2..Len(g) : Len(g[i]) = 3 /\ AllDigits(g[i])

\* Brazilian money format: [R$] integer part [, decimals]
FormatoBR(s) ==
    LET b == SemPrefixo(s)
    IN /\ InteiraBR(ParteInteira(b))
       /\ Find(b, ",") # 0 => (ParteDecimal(b) # <<>> /\ AllDigits(ParteDecimal(b)))

\* the amount a text in that format denotes: its digits, with as many decimal
\* places as follow the comma
Denota(s) ==
    [ok |-> TRUE, num |-> DigitsToInt(SoDigitos(s)), k |-> Len(ParteDecimal(SemPrefixo(s)))]

\* a minus sign before a text in the format that denotes more than zero
NegativoBR(s) ==
    LET u == Strip(s)
    IN u # <<>> /\ u[1] = "-" /\ FormatoBR(Tail(u)) /\ Denota(Tail(u)).num > 0

ValorRejeitado ==
    /\ validacao.linhas_validas = <<>>
    /\ Len(validacao.erros) = 1
    /\ validacao.erros[1].msg = "Valor de compra invalido ou ausente"

\* C9: a valor_compra in Brazilian money format is accepted and parsed to the
\* amount it denotes; a negative amount, a text without a digit, and any text
\* _parse_decimal gives None for, are rejected with the valor_compra message.
C9_ValorFormatoBR ==
    Validou =>
        LET celula == validacao.dados[1].valor_compra
            d == _parse_decimal(celula)
        IN /\ FormatoBR(celula.s) =>
                /\ Len(validacao.linhas_validas) = 1
                /\ DecEq(validacao.linhas_validas[1].valor_compra, Denota(celula.s))
                /\ validacao.erros = <<>>
           /\ NegativoBR(celula.s) => ValorRejeitado
           /\ SoDigitos(celula.s) = <<>> => ValorRejeitado
           /\ (~d.ok \/ d.num < 0) => ValorRejeitado

\* "R$ 1.234,56" validated to 1234.56
C9_Witness ==
    /\ Validou
    /\ validacao.dados[1].valor_compra.s =
          <<"R", "$", " ", "1", ".", "2", "3", "4", ",", "5", "6">>
    /\ Len(validacao.linhas_validas) = 1
    /\ validacao.linhas_validas[1].valor_compra.num = 123456
    /\ validacao.linhas_validas[1].valor_compra.k = 2

----------------------------------------------------------------------------
(* Properties of the caches and of repeated runs (Spec, SpecReexecucao)       *)

\* importar has just called _carregar_caches and no row has been taken yet
InicioDaExecucao == pc = "emit" /\ idx = 0

\* the caches a fresh importer would build from the store as it is now
CachesDoStore ==
    <<CarregarFornecedores(<<>>, PorId(fornecedores, "id_fornecedor")),
      CarregarNomes(<<>>, PorId(setores_locais, "id_setor_local"),
                    "nome_setor_local", "id_setor_local"),
      CarregarNomes(<<>>, PorId(categorias, "id_categoria"),
                    "nome_categoria", "id_categoria")>>

\* C11: at the start of every importar call whose three priming queries
\* succeeded, the supplier, sector and category caches hold exactly the
\* entities present in the store at that moment: nothing of an earlier run on
\* the same importer is retained.
C11_CacheNovaPorExecucao ==
    (InicioDaExecucao /\ cargas_falhas = {})
        => <<_fornecedores_cache, _setores_cache, _categorias_cache>> = CachesDoStore

\* a second run starts after a supplier the first run created was deleted
C11_SegundaAposExclusao ==
    /\ InicioDaExecucao
    /\ execucoes = 2
    /\ cargas_falhas = {}
    /\ \E i \in 1..(auto_inc.fornecedores - 1) :
            \A f \in fornecedores : f.id_fornecedor # i

InsercoesEm(e, tabela) == {i \in DOMAIN e.inseridos : e.inseridos[i].tabela = tabela}

\* the rows of a finished run that were imported
ImportadasEm(e) == DOMAIN e.linhas \ e.falhou

\* two runs of the same importer have finished, over the same validated rows
Reexecutado == Len(historico) = 2 /\ historico[2].linhas = historico[1].linhas

----------------------------------------------------------------------------
(* validar_cnpj on its own (SpecCnpj): the text is a 12-digit base followed by *)
(* any two check digits, bare, masked or padded, or a text of another shape    *)

\* bases whose check digits come from remainders 0, 1 and above, the two
\* bases of one repeated digit, and the bases of the test suite's examples
BasesCnpj ==
    {<<"1", "1", "2", "2", "2", "3", "3", "3", "0", "0", "0", "1">>,
     <<"1", "1", "2", "2", "2", "3", "3", "3", "0", "0", "0", "5">>,
     <<"1", "1", "2", "2", "2", "3", "3", "3", "0", "0", "1", "4">>,
     <<"1", "1", "2", "2", "2", "3", "3", "3", "0", "0", "1", "8">>,
     <<"1", "1", "2", "2", "2", "3", "3", "3", "0", "0", "2", "7">>,
     <<"0", "0", "0", "0", "0", "0", "0", "0", "0", "0", "0", "0">>,
     <<"9", "9", "9", "9", "9", "9", "9", "9", "9", "9", "9", "9">>,
     <<"0", "0", "0", "0", "0", "0", "0", "0", "0", "0", "0", "1">>,
     <<"3", "4", "0", "2", "8", "3", "1", "6", "0", "0", "0", "1">>,
     <<"1", "2", "3", "4", "5", "6", "7", "8", "0", "0", "0", "1">>}

\* NN.NNN.NNN/NNNN-NN
Mascara(d) ==
    SubSeq(d, 1, 2) \o <<".">> \o SubSeq(d, 3, 5) \o <<".">> \o SubSeq(d, 6, 8) \o <<"/">>
        \o SubSeq(d, 9, 12) \o <<"-">> \o SubSeq(d, 13, 14)

Com14Digitos == {b \o <<Digits[i], Digits[j]>> : b \in BasesCnpj, i, j \in 1..10}

TextosCnpj ==
    Com14Digitos
    \cup {Mascara(d) : d \in Com14Digitos}
    \cup {<<" ">> \o Mascara(d) \o <<"x">> : d \in Com14Digitos}
    \cup {SubSeq(d, 1, 13) : d \in Com14Digitos}
    \cup {d \o <<"0">> : d \in Com14Digitos}
    \cup {<<>>, <<" ">>, <<" ", " ">>, <<"a", "b">>, <<"1">>, <<"-">>}

InitCnpj ==
    /\ StoreInit(StoreVazio)
    /\ ImporterInit
    /\ DialogInit
    /\ FrameInit
    /\ UmSoDialogo
    /\ \E c \in TextosCnpj : verificacao = [NoVerificacao EXCEPT !.cnpj = c]

\* a call validar_cnpj(cnpj), its tuple kept
verificar_cnpj ==
    /\ ~verificacao.feito
    /\ LET r == validar_cnpj(verificacao.cnpj)
       IN verificacao' = [verificacao EXCEPT !.feito = TRUE, !.valido = r[1],
                                             !.mensagem = r[2]]
    /\ UNCHANGED <<storeVars, cacheVars, dialogVars, thread, frameVars, histVars,
                   sinalVars, historico, cargas_falhas, outro>>

NextCnpj == verificar_cnpj

SpecCnpj == InitCnpj /\ [][NextCnpj]_vars

----------------------------------------------------------------------------
(* Properties of validar_cnpj (SpecCnpj)                                      *)

\* the weight of position i among n digits: 2, 3, ... 9 and again 2, 3, ...
\* counted from the last position
PesoDaPosicao(i, n) == 2 + ((n - i) % 8)

RECURSIVE SomaPonderada(_, _, _)
SomaPonderada(d, n, i) ==
    IF i = 0 THEN 0
    ELSE SomaPonderada(d, n, i - 1) + DigitVal(d[i]) * PesoDaPosicao(i, n)

\* the modulo-11 check digit over the first n digits of d
DigitoMod11(d, n) ==
    LET resto == SomaPonderada(d, n, n) % 11
    IN IF resto < 2 THEN 0 ELSE 11 - resto

CnpjBemFormado(texto) ==
    LET d == SelectSeq(texto, LAMBDA c : c \in {"0", "1", "2", "3", "4", "5", "6", "7", "8", "9"})
    IN /\ Len(d) = 14
       /\ \E i \in 2..14 : d[i] # d[1]
       /\ DigitVal(d[13]) = DigitoMod11(d, 12)
       /\ DigitVal(d[14]) = DigitoMod11(d, 13)

----------------------------------------------------------------------------
(* Properties of entity resolution under failures (Spec)                      *)

\* a supplier of the store matches a new row by name or by tax id
MesmoFornecedor(f, g) ==
    \/ nome_lower(f.nome_fornecedor) = nome_lower(g.nome_fornecedor)
    \/ f.cnpj # <<>> /\ Strip(f.cnpj) = Strip(g.cnpj)

\* C14: during a run a supplier, sector or category row is inserted only when
\* the store holds, at that moment, no entity of the same trimmed, lower-cased
\* name (or, for a supplier, of the same tax id), also after a priming query
\* has failed.
C14_InsereSoSemCorrespondencia ==
    [][/\ \A f \in fornecedores' \ fornecedores :
              \A g \in fornecedores : ~MesmoFornecedor(f, g)
       /\ \A s \in setores_locais' \ setores_locais :
              \A g \in setores_locais :
                  nome_lower(s.nome_setor_local) # nome_lower(g.nome_setor_local)
       /\ \A c \in categorias' \ categorias :
              \A g \in categorias :
                  nome_lower(c.nome_categoria) # nome_lower(g.nome_categoria)]_vars

\* the sector part of C14 alone, where no unique index can stand in the way
C14_SetorSoSemCorrespondencia ==
    [][\A s \in setores_locais' \ setores_locais :
            \A g \in setores_locais :
                nome_lower(s.nome_setor_local) # nome_lower(g.nome_setor_local)]_vars

\* C14 on the runs whose priming queries all succeeded
C14_ComCargaInsereSoSemCorrespondencia ==
    [][cargas_falhas = {} =>
        /\ \A f \in fornecedores' \ fornecedores :
              \A g \in fornecedores : ~MesmoFornecedor(f, g)
        /\ \A s \in setores_locais' \ setores_locais :
              \A g \in setores_locais :
                  nome_lower(s.nome_setor_local) # nome_lower(g.nome_setor_local)
        /\ \A c \in categorias' \ categorias :
              \A g \in categorias :
                  nome_lower(c.nome_categoria) # nome_lower(g.nome_categoria)]_vars

\* C15: in every state of a run, for any row of the run whose name key and
\* tax-id key are both in the supplier cache, the two keys map to the same
\* supplier identifier.
C15_ChavesMesmoId ==
    \A k \in DOMAIN thread.linhas :
        LET l == thread.linhas[k]
            nome == nome_lower(l.fornecedor_nome)
            cnpj == cnpj_key(l.fornecedor_cnpj)
        IN (/\ l.fornecedor_cnpj # <<>>
            /\ nome \in DOMAIN _fornecedores_cache
            /\ cnpj \in DOMAIN _fornecedores_cache)
           => _fornecedores_cache[nome] = _fornecedores_cache[cnpj]

----------------------------------------------------------------------------
(* Properties of the order of the steps of a row (Spec)                       *)

Ordem == <<"fornecedores", "setores_locais", "categorias">>

\* the resolutions of row k, as positions of the log
ResolucoesDa(k) == {i \in DOMAIN resolvidos : resolvidos[i].idx = k}

PatrimoniosDa(k) == {i \in InsercoesDe("patrimonios") : inseridos[i].idx = k}

\* the resolutions of row k so far are the supplier, then the sector, then the
\* category, or a beginning of that
EmOrdem(k) ==
    /\ Cardinality(ResolucoesDa(k)) <= 3
    /\ \A i \in ResolucoesDa(k) :
          resolvidos[i].tabela = Ordem[Cardinality({j \in ResolucoesDa(k) : j <= i})]

\* C16: for every row importar resolves the supplier, then the sector, then
\* the category, and only then inserts the asset; once a step of a row has
\* raised, no later step of that row is taken and no asset is inserted for it.
C16_OrdemDosPassos ==
    [][DaExecucao' =>
        /\ \A k \in DOMAIN thread.linhas' :
              /\ EmOrdem(k)'
              /\ PatrimoniosDa(k)' # {} => Cardinality(ResolucoesDa(k)') = 3
              /\ Cardinality(PatrimoniosDa(k)') <= 1
        /\ \A k \in falhou' :
              /\ PatrimoniosDa(k)' = {}
              /\ k \in falhou => ResolucoesDa(k)' = ResolucoesDa(k)]_vars

\* a finished run in which one row went through the four steps and another
\* raised in its category step, after its supplier and its sector
C16_Witness ==
    /\ thread.estado = "terminada"
    /\ \E k \in falhou : Cardinality(ResolucoesDa(k)) = 2
    /\ \E k \in DOMAIN thread.linhas :
          Cardinality(ResolucoesDa(k)) = 3 /\ PatrimoniosDa(k) # {}

----------------------------------------------------------------------------
(* Properties of a failed row's entities (Spec)                               *)

TabelaDoStore(tabela) ==
    CASE tabela = "fornecedores" -> {f.id_fornecedor : f \in fornecedores}
      [] tabela = "setores_locais" -> {s.id_setor_local : s \in setores_locais}
      [] tabela = "categorias" -> {c.id_categoria : c \in categorias}

CacheDa(tabela) ==
    CASE tabela = "fornecedores" -> _fornecedores_cache
      [] tabela = "setores_locais" -> _setores_cache
      [] tabela = "categorias" -> _categorias_cache

\* the entity inserts of the run made for rows that failed afterwards
CriadasPorFalhas(tabela) == {i \in InsercoesDe(tabela) : inseridos[i].idx \in falhou}

\* C17: entity creation is not rolled back. When a row fails at a later step,
\* the entities created for it stay in the store and in the cache and stay
\* counted in the created counters, and a later row of the run that names such
\* an entity gets its identifier without a new insert.
C17_SemRollback ==
    DaExecucao =>
        \A tabela \in Entidades :
            /\ Criados(tabela) = Cardinality(InsercoesDe(tabela))
            /\ thread.result.populado =>
                  Cardinality(InsercoesDe(tabela)) =
                      CASE tabela = "fornecedores" -> thread.result.fornecedores_criados
                        [] tabela = "setores_locais" -> thread.result.setores_criados
                        [] tabela = "categorias" -> thread.result.categorias_criadas
            /\ \A i \in CriadasPorFalhas(tabela) :
                  /\ inseridos[i].id \in TabelaDoStore(tabela)
                  /\ inseridos[i].chave \in DOMAIN CacheDa(tabela)
                  /\ CacheDa(tabela)[inseridos[i].chave] = inseridos[i].id
                  /\ \A r \in DOMAIN resolvidos :
                        (/\ resolvidos[r].tabela = tabela
                         /\ resolvidos[r].idx > inseridos[i].idx
                         /\ ChaveDaLinha(tabela, thread.linhas[resolvidos[r].idx])
                                = inseridos[i].chave)
                        => /\ resolvidos[r].id = inseridos[i].id
                           /\ ~resolvidos[r].criado

\* a finished run: a row created a supplier and failed afterwards, a later row
\* naming that supplier was imported with the same identifier
C17_Witness ==
    /\ thread.estado = "terminada"
    /\ \E i \in CriadasPorFalhas("fornecedores") :
          \E r \in DOMAIN resolvidos :
              /\ resolvidos[r].tabela = "fornecedores"
              /\ resolvidos[r].idx > inseridos[i].idx
              /\ resolvidos[r].id = inseridos[i].id
              /\ PatrimoniosDa(resolvidos[r].idx) # {}
    /\ thread.result.fornecedores_criados = 1

----------------------------------------------------------------------------
(* Properties of the progress signals (Spec)                                  *)

\* the rows of the run that are over: imported, or recorded as failed
Concluidas == importados + Len(erros)

\* C18: the progress event (k, total) of row k is emitted after row k has been
\* processed: the count an event reports is never above the number of rows
\* completed (written, or recorded as failed) at that moment.
C18_ProgressoAposALinha ==
    (DaExecucao /\ emitidos # <<>>) => emitidos[Len(emitidos)] <= Concluidas

\* the progress calls still queued for the dialog, oldest first
NaFila == SelectSeq(fila, LAMBDA s : s.tipo = "progress")

\* C19: during one run exactly one progress event is emitted per row reached,
\* failing rows included, the counts go 1, 2, ... up to total, and the
\* dialog's handler receives them in that order, all of them before the run
\* is reported finished.
C19_UmEventoPorLinhaEmOrdem ==
    DaExecucao =>
        /\ emitidos = [i \in 1..idx |-> i]
        /\ pc \in {"retornar", "idle"} => emitidos = [i \in 1..Len(thread.linhas) |-> i]
        /\ emitidos = recebidos \o [i \in DOMAIN NaFila |-> NaFila[i].atual]
        /\ \A i \in DOMAIN NaFila : NaFila[i].total = Len(thread.linhas)
        /\ thread.estado = "entregue" => recebidos = emitidos

\* the dialog has been told that a run of three rows, one of them failed, is
\* over, after receiving 1, 2, 3
C19_Witness ==
    /\ thread.estado = "entregue"
    /\ Len(thread.linhas) = 3
    /\ falhou # {}
    /\ recebidos = <<1, 2, 3>>

----------------------------------------------------------------------------
(* Properties of the dialog (Spec)                                            *)

\* the last validation was made on the rows now loaded and found no error
ValidadoSemErros ==
    /\ validacao.dados = dados_validados
    /\ validacao.erros = <<>>
    /\ linhas_validas = validacao.linhas_validas

DialogoEmOrdem ==
    /\ dados_validados = <<>> => ~botoes.validar /\ ~botoes.importar
    /\ botoes.validar => dados_validados # <<>>
    /\ botoes.importar => dados_validados # <<>> /\ ValidadoSemErros
    /\ thread.estado = "rodando" =>
          /\ ~botoes.selecionar /\ ~botoes.validar /\ ~botoes.importar
          /\ thread.linhas = linhas_validas
          /\ ValidadoSemErros

\* C20: the dialog goes from idle to reading, validating, importing and done
\* in that order. An import starts only with the rows returned by a
\* validation of the file now loaded, a validation is possible only after a
\* file was read, the import is enabled only when that validation found no
\* error, and loading another file discards the validated rows and disables
\* the import until a new validation.
C20_DialogoEmOrdem ==
    /\ []DialogoEmOrdem
    /\ [][/\ (thread.estado # "rodando" /\ thread'.estado = "rodando") =>
                /\ botoes.importar
                /\ ValidadoSemErros
                /\ thread'.linhas = validacao.linhas_validas
          /\ (dialogo = "aberto" /\ dialogo' = "aberto"
                    /\ dados_validados' # dados_validados) =>
                /\ linhas_validas' = <<>>
                /\ ~botoes'.importar
                /\ dados_validados' # <<>>]_vars

\* an import is running over the rows of a sheet of three rows that was read
\* and validated without errors
C20_Witness ==
    /\ thread.estado = "rodando"
    /\ pc = "fornecedor"
    /\ Len(dados_validados) = 3
    /\ validacao.dados = dados_validados
    /\ thread.linhas = validacao.linhas_validas
    /\ Len(thread.linhas) = 3

----------------------------------------------------------------------------
(* Properties of the worker thread and the dialog (Spec, SpecReexecucao)      *)

\* the step is a run of the completion handler
Concluiu == thread.estado # "entregue" /\ thread'.estado = "entregue"

\* C21: whenever the completion handler _importacao_concluida runs, importar
\* has already returned and ImportThread.result holds the ImportResult of that
\* run, never an absent value.
C21_ResultadoEntregue ==
    [][Concluiu =>
        /\ pc = "idle"
        /\ thread.estado = "terminada"
        /\ thread.result.populado
        /\ thread.result = ImportResult(Len(thread.linhas), importados, erros,
                                        fornecedores_criados, setores_criados,
                                        categorias_criadas)
        /\ Len(historico) = execucoes
        /\ historico[execucoes].linhas = thread.linhas
        /\ thread.result.importados
              = Cardinality(InsercoesEm(historico[execucoes], "patrimonios"))]_vars

\* the handler has run for the second run of a dialog, whose result has errors
C21_Witness ==
    /\ thread.estado = "entregue"
    /\ execucoes = 2
    /\ thread.result.populado
    /\ thread.result.erros # <<>>
    /\ thread.result.importados > 0

----------------------------------------------------------------------------
(* The run under fair scheduling (SpecJusta): the worker thread keeps being   *)
(* scheduled and its database calls return; the event loop of the UI thread   *)
(* keeps dispatching the queued calls                                         *)

\* a step of ImportThread.run
Trabalhador ==
    \/ importar_inicio
    \/ emitir
    \/ _garantir_fornecedor
    \/ _garantir_setor
    \/ _garantir_categoria
    \/ _criar_patrimonio
    \/ importar_retorno

\* a queued slot call dispatched by QApplication.exec
Despacho == _atualizar_progresso \/ _importacao_concluida

\* csv files of up to MaxLinhas rows naming two suppliers, one of the rows
\* with a status outside the list
ArquivosJusta ==
    {[ext |-> "csv", linhas |-> l] :
        l \in SeqsAte({LinhaPlanilha(<<"A", "b">>, CnpjX, <<"R", "h">>, <<"T", "i">>,
                                     <<"a", "t", "i", "v", "o">>),
                       LinhaPlanilha(<<"C", "d">>, <<>>, <<"R", "h">>, <<"T", "i">>,
                                     <<"a", "t", "i", "v", "o">>),
                       LinhaPlanilha(<<"A", "b">>, <<>>, <<"R", "h">>, <<"T", "i">>,
                                     <<"p", "e", "n", "d", "i", "n", "g">>)}, MaxLinhas)}

NextJusta ==
    \/ SelecionarArquivo(ArquivosJusta, MaxExecucoes)
    \/ _validar_dados
    \/ _importar
    \/ Trabalhador
    \/ Despacho
    \/ fechar

SpecJusta == Init /\ [][NextJusta]_vars /\ WF_vars(Trabalhador) /\ WF_vars(Despacho)

\* every row of the list has been taken by the loop once, in order, and each
\* has ended as imported or as failed
TodasUmaVez ==
    /\ idx = Len(thread.linhas)
    /\ emitidos = [i \in 1..Len(thread.linhas) |-> i]
    /\ \A k \in DOMAIN thread.linhas :
          /\ Cardinality(PatrimoniosDa(k)) + (IF k \in falhou THEN 1 ELSE 0) = 1
          /\ \A tabela \in Entidades :
                Cardinality({i \in ResolucoesDa(k) : resolvidos[i].tabela = tabela}) <= 1
    /\ thread.result.total_linhas = Len(thread.linhas)
    /\ thread.result.importados + Len(thread.result.erros) = Len(thread.linhas)

\* C22: once an import has started it runs to completion over the full row
\* set: whatever rows fail, every row of the list is attempted exactly once,
\* and the run eventually reaches Done and delivers its result.
C22_ExecutaAteOFim ==
    /\ [](thread.estado \in {"terminada", "entregue"} => TodasUmaVez)
    /\ (thread.estado = "rodando") ~> (thread.estado = "entregue")

\* the result of a run of three rows, two of them failed, has been delivered
C22_Witness ==
    /\ thread.estado = "entregue"
    /\ Len(thread.linhas) = 3
    /\ Cardinality(falhou) = 2
    /\ thread.result.importados = 1

\* an import thread has been started and its completion handler has not run
EmAndamento == thread.estado \in {"rodando", "terminada"}

\* C23: no two import runs execute at once on one importer. From the moment
\* the dialog starts an import thread until its completion handler has run,
\* the select, validate, import and close buttons are disabled, so no second
\* import, no validation and no file load starts on the same importer.
C23_UmaExecucaoPorVez ==
    /\ [](EmAndamento =>
            /\ ~botoes.selecionar /\ ~botoes.validar /\ ~botoes.importar /\ ~botoes.fechar
            /\ dialogo = "aberto")
    /\ [][(EmAndamento /\ EmAndamento') =>
            /\ UNCHANGED <<dados_validados, linhas_validas, validacao, dialogo, botoes>>
            /\ thread'.linhas = thread.linhas
            /\ execucoes' = execucoes
            /\ pc # "idle" => pc' # "importar"]_vars

\* importar has returned for a run of two rows and the handler has not run yet
C23_Witness ==
    /\ thread.estado = "terminada"
    /\ Len(thread.linhas) = 2
    /\ fila # <<>>
    /\ ~botoes.selecionar /\ ~botoes.validar /\ ~botoes.importar /\ ~botoes.fechar

----------------------------------------------------------------------------
(* Two dialogs, each with its own importer, on one store (SpecConcorrente).   *)
(* The variables of a dialog hold the dialog that takes the next step; the    *)
(* other one waits in outro until the scheduler turns to it.                  *)

MaxConcorrentes == 2

\* the dialog, importer, thread and frame that are taking steps
Contexto ==
    [cache_f |-> _fornecedores_cache,
     cache_s |-> _setores_cache,
     cache_c |-> _categorias_cache,
     dialogo |-> dialogo,
     dados_validados |-> dados_validados,
     linhas_validas |-> linhas_validas,
     validacao |-> validacao,
     txt_erros |-> txt_erros,
     botoes |-> botoes,
     thread |-> thread,
     pc |-> pc,
     idx |-> idx,
     importados |-> importados,
     erros |-> erros,
     fornecedores_criados |-> fornecedores_criados,
     setores_criados |-> setores_criados,
     categorias_criadas |-> categorias_criadas,
     ids |-> ids,
     emitidos |-> emitidos,
     inseridos |-> inseridos,
     resolvidos |-> resolvidos,
     falhou |-> falhou,
     fila |-> fila,
     recebidos |-> recebidos,
     historico |-> historico,
     cargas_falhas |-> cargas_falhas]

\* a dialog and its importer as their constructors leave them
ContextoInicial ==
    [cache_f |-> <<>>,
     cache_s |-> <<>>,
     cache_c |-> <<>>,
     dialogo |-> "aberto",
     dados_validados |-> <<>>,
     linhas_validas |-> <<>>,
     validacao |-> NoValidacao,
     txt_erros |-> <<>>,
     botoes |-> [selecionar |-> TRUE, validar |-> FALSE, importar |-> FALSE,
                fechar |-> TRUE],
     thread |-> NoThread,
     pc |-> "idle",
     idx |-> 0,
     importados |-> 0,
     erros |-> <<>>,
     fornecedores_criados |-> 0,
     setores_criados |-> 0,
     categorias_criadas |-> 0,
     ids |-> NoIds,
     emitidos |-> <<>>,
     inseridos |-> <<>>,
     resolvidos |-> <<>>,
     falhou |-> {},
     fila |-> <<>>,
     recebidos |-> <<>>,
     historico |-> <<>>,
     cargas_falhas |-> {}]

\* one csv file of one row
ArquivosConcorrentes ==
    {[ext |-> "csv",
      linhas |-> <<LinhaPlanilha(<<"A", "b">>, <<>>, <<"R", "h">>, <<"T", "i">>,
                                 <<"a", "t", "i", "v", "o">>)>>]}

InitConcorrente ==
    /\ StoreInit(StoreVazio)
    /\ ImporterInit
    /\ DialogInit
    /\ FrameInit
    /\ VerificacaoInit
    /\ outro = ContextoInicial

\* the scheduler turns to the other dialog's process: no program step
trocar ==
    /\ outro # SemOutro
    /\ outro' = Contexto
    /\ _fornecedores_cache' = outro.cache_f
    /\ _setores_cache' = outro.cache_s
    /\ _categorias_cache' = outro.cache_c
    /\ dialogo' = outro.dialogo
    /\ dados_validados' = outro.dados_validados
    /\ linhas_validas' = outro.linhas_validas
    /\ validacao' = outro.validacao
    /\ txt_erros' = outro.txt_erros
    /\ botoes' = outro.botoes
    /\ thread' = outro.thread
    /\ pc' = outro.pc
    /\ idx' = outro.idx
    /\ importados' = outro.importados
    /\ erros' = outro.erros
    /\ fornecedores_criados' = outro.fornecedores_criados
    /\ setores_criados' = outro.setores_criados
    /\ categorias_criadas' = outro.categorias_criadas
    /\ ids' = outro.ids
    /\ emitidos' = outro.emitidos
    /\ inseridos' = outro.inseridos
    /\ resolvidos' = outro.resolvidos
    /\ falhou' = outro.falhou
    /\ fila' = outro.fila
    /\ recebidos' = outro.recebidos
    /\ historico' = outro.historico
    /\ cargas_falhas' = outro.cargas_falhas
    /\ UNCHANGED <<storeVars, falhas, execucoes, verificacao>>

NextConcorrente ==
    \/ SelecionarArquivo(ArquivosConcorrentes, MaxConcorrentes)
    \/ _validar_dados
    \/ Importar(MaxConcorrentes)
    \/ Trabalhador
    \/ Despacho
    \/ trocar

SpecConcorrente == InitConcorrente /\ [][NextConcorrente]_vars


\* the supplier ids a sequence of insertions names
FornecedoresDe(ins) ==
    {ins[i].id : i \in {j \in DOMAIN ins : ins[j].tabela = "fornecedores"}}

\* the supplier ids the importer of a dialog inserted, in its finished runs
\* and in the run in progress
FornecedoresInseridosPor(ctx) ==
    FornecedoresDe(ctx.inseridos)
        \cup UNION {FornecedoresDe(ctx.historico[k].inseridos) : k \in DOMAIN ctx.historico}

HomonimosDe(f) ==
    {g \in fornecedores : nome_lower(g.nome_fornecedor) = nome_lower(f.nome_fornecedor)}

\* C24: with two importers on one store, supplier rows of one name are never
\* inserted by the same importer: each row of the store was inserted by exactly
\* one of the two importers, an importer inserts a given name at most once, and
\* so a name has at most one row per importer.  (Two rows of one name, one from
\* each importer, both having primed their caches without failure, is the
\* witness.)
C24_HomonimosSoEntreImportadores ==
    \A f \in fornecedores :
        /\ (f.id_fornecedor \in FornecedoresInseridosPor(Contexto))
               # (f.id_fornecedor \in FornecedoresInseridosPor(outro))
        /\ \A g \in HomonimosDe(f) :
               g # f =>
                   (g.id_fornecedor \in FornecedoresInseridosPor(Contexto))
                       # (f.id_fornecedor \in FornecedoresInseridosPor(Contexto))
        /\ Cardinality(HomonimosDe(f)) <= MaxConcorrentes

C24_Witness ==
    /\ falhas = 0
    /\ cargas_falhas = {} /\ outro.cargas_falhas = {}
    /\ \E f \in fornecedores : \E g \in HomonimosDe(f) :
           /\ f.id_fornecedor \in FornecedoresInseridosPor(Contexto)
           /\ g.id_fornecedor \in FornecedoresInseridosPor(outro)


----------------------------------------------------------------------------
(* The quantity and the condition of a row (SpecValidar)                      *)

\* the cell holds a positive whole number: an int, a whole float or an
\* integer literal
QuantidadePositiva(celula) ==
    CASE celula.t = "int" -> celula.n > 0
      [] celula.t = "float" -> celula.n > 0 /\ celula.n % Pow10(celula.k) = 0
      [] celula.t = "str" -> IntLiteral(celula.s) /\ IntOf(celula.s) > 0
      [] OTHER -> FALSE

\* the PatrimonioImportRow returned for the row
ValidadaDe(row) ==
    CHOOSE v \in Range(validacao.linhas_validas) : v.linha = LinhaDe(row)

\* C25: a row whose quantity cell holds a value that is not a positive integer
\* is not returned as valid and has an error entry; a returned row has the
\* quantity its cell denotes, and has quantity 1 without the cell saying so
\* only when the cell holds no value.
C25_QuantidadeNuncaSubstituida ==
    Validou =>
        \A k \in DOMAIN validacao.dados :
            LET row == validacao.dados[k]
            IN /\ (~SemValor(row.quantidade) /\ ~QuantidadePositiva(row.quantidade))
                      => (~Aceita(row) /\ ErrosDe(row) # {})
               /\ (Aceita(row) /\ ~SemValor(row.quantidade))
                      => ValidadaDe(row).quantidade = _parse_int(row.quantidade)


\* the row has no condition: no such column, None, or text that is blank
EstadoEmBranco(row) ==
    \/ "estado_conservacao" \notin DOMAIN row
    \/ row.estado_conservacao.t = "None"
    \/ row.estado_conservacao.t = "str" /\ Strip(row.estado_conservacao.s) = <<>>

\* the row passes every check when its condition is "bom"
ValidaComBom(row) ==
    _validar_linha([c \in DOMAIN row \cup {"estado_conservacao"} |->
                       IF c = "estado_conservacao" THEN PyStr(<<"b", "o", "m">>)
                       ELSE row[c]]).ok

\* C26: a row with no condition that is valid otherwise is returned with
\* estado_conservacao "bom"; a row is rejected for its condition only when the
\* cell holds a non-blank value that, trimmed and lower-cased, is not one of
\* novo, bom, regular, ruim.
C26_EstadoOpcional ==
    Validou =>
        \A k \in DOMAIN validacao.dados :
            LET row == validacao.dados[k]
            IN /\ (EstadoEmBranco(row) /\ ValidaComBom(row))
                      => /\ Aceita(row)
                         /\ ValidadaDe(row).estado_conservacao = <<"b", "o", "m">>
               /\ (ValidaComBom(row) /\ ~Aceita(row))
                      => /\ ~EstadoEmBranco(row)
                         /\ Lower(Strip(ToStr(row.estado_conservacao)))
                                \notin Range(VALID_ESTADOS)


----------------------------------------------------------------------------
(* The readers on files with blank lines and empty rows (SpecLeitura)         *)

\* a blank line of a csv file: csv.reader gives [] for it
LinhaEmBranco == [c \in {} |-> PyNone]

\* a row whose cells are all empty: ",,,,,,," in a csv file, a row of None in
\* a sheet
LinhaSemCelulas ==
    [c \in DOMAIN LinhaPlanilha(<<>>, <<>>, <<>>, <<>>, <<>>) |-> PyStr(<<>>)]

LinhasLeitura ==
    {LinhaPlanilha(<<"A", "b">>, CnpjX, <<"R", "h">>, <<"T", "i">>,
                   <<"a", "t", "i", "v", "o">>),
     LinhaPlanilha(<<"C", "d">>, <<>>, <<"R", "h">>, <<"T", "i">>,
                   <<"b", "a", "i", "x", "a", "d", "o">>),
     LinhaSemCelulas}

ArquivosLeitura ==
    {[ext |-> "csv", linhas |-> l] :
        l \in SeqsAte(LinhasLeitura \cup {LinhaEmBranco}, MaxLinhas)}
    \cup {[ext |-> "xlsx", linhas |-> [i \in DOMAIN l |-> CelulasExcel(l[i])]] :
            l \in SeqsAte(LinhasLeitura, MaxLinhas)}

NextLeitura ==
    \/ SelecionarArquivo(ArquivosLeitura, MaxExecucoes)
    \/ _validar_dados

SpecLeitura == Init /\ [][NextLeitura]_vars

\* the positions, among the data lines of a file, of the rows that hold a value
PosicoesComValor(linhas) ==
    {i \in DOMAIN linhas : DOMAIN linhas[i] # {} /\ AnyCell(linhas[i])}

\* dados holds, in order, each data line of the file that holds a value, with
\* its cells, tagged with the number of that line in the file (the header is
\* line 1, so data line i is line i + 1)
NumeradaPeloArquivo(linhas, dados) ==
    LET P == PosicoesComValor(linhas)
    IN /\ Len(dados) = Cardinality(P)
       /\ \A j \in DOMAIN dados :
             LET i == CHOOSE x \in P : Cardinality({y \in P : y <= x}) = j
             IN /\ dados[j]["_linha"] = PyInt(i + 1)
                /\ \A c \in DOMAIN linhas[i] : dados[j][c] = linhas[i][c]

\* C27: whatever file the dialog's rows were read from, csv or Excel, each row
\* carries the number of its line in that file, also after blank lines and
\* entirely empty rows, which are skipped.
C27_NumeroDaLinhaNoArquivo ==
    dados_validados # <<>> =>
        \A arq \in ArquivosLeitura :
            (ler_planilha(arq).sucesso /\ ler_planilha(arq).dados = dados_validados)
                => NumeradaPeloArquivo(arq.linhas, dados_validados)

\* the same, for the files without a blank line
C27_SemLinhaEmBranco ==
    dados_validados # <<>> =>
        \A arq \in ArquivosLeitura :
            (/\ \A i \in DOMAIN arq.linhas : DOMAIN arq.linhas[i] # {}
             /\ ler_planilha(arq).sucesso
             /\ ler_planilha(arq).dados = dados_validados)
                => NumeradaPeloArquivo(arq.linhas, dados_validados)


----------------------------------------------------------------------------
(* Counters and caches at the end of a run (Spec)                             *)

ContadorDoResultado(tabela) ==
    CASE tabela = "fornecedores" -> thread.result.fornecedores_criados
      [] tabela = "setores_locais" -> thread.result.setores_criados
      [] tabela = "categorias" -> thread.result.categorias_criadas

IdsInseridos(tabela) == {inseridos[i].id : i \in InsercoesDe(tabela)}

\* C28: when a run has returned, each created counter of its ImportResult is
\* the number of rows of that kind the run inserted, all of them in the store,
\* and the cache maps the name key of each inserted entity to its identifier,
\* and so does the tax-id key of each inserted supplier that has a tax id.
C28_ContadoresECacheNoFim ==
    thread.result.populado =>
        /\ \A tabela \in Entidades :
              /\ ContadorDoResultado(tabela) = Cardinality(InsercoesDe(tabela))
              /\ ContadorDoResultado(tabela) = Cardinality(IdsInseridos(tabela))
              /\ IdsInseridos(tabela) \subseteq TabelaDoStore(tabela)
              /\ \A i \in InsercoesDe(tabela) :
                    /\ inseridos[i].chave \in DOMAIN CacheDa(tabela)
                    /\ CacheDa(tabela)[inseridos[i].chave] = inseridos[i].id
        /\ \A f \in fornecedores :
              (f.id_fornecedor \in IdsInseridos("fornecedores") /\ f.cnpj # <<>>)
                  => /\ cnpj_key(f.cnpj) \in DOMAIN _fornecedores_cache
                     /\ _fornecedores_cache[cnpj_key(f.cnpj)] = f.id_fornecedor

\* a returned run that inserted two suppliers, one of them with a tax id, a
\* sector and a category, and in which a row failed
C28_Witness ==
    /\ thread.result.populado
    /\ thread.result.fornecedores_criados = 2
    /\ thread.result.setores_criados >= 1
    /\ thread.result.categorias_criadas >= 1
    /\ thread.result.erros # <<>>
    /\ \E f, g \in fornecedores :
          /\ {f.id_fornecedor, g.id_fornecedor} \subseteq IdsInseridos("fornecedores")
          /\ f.cnpj # <<>> /\ g.cnpj = <<>>


----------------------------------------------------------------------------
(* Suppliers without a tax id (SpecSemCnpj)                                   *)

\* csv files and sheets of up to two rows, of two suppliers, whose tax-id
\* cells are empty
ArquivosSemCnpj ==
    LET L == {LinhaPlanilha(<<"A", "b">>, <<>>, <<"R", "h">>, <<"T", "i">>,
                            <<"a", "t", "i", "v", "o">>),
              LinhaPlanilha(<<"C", "d">>, <<>>, <<"R", "h">>, <<"T", "i">>,
                            <<"a", "t", "i", "v", "o">>)}
    IN {[ext |-> "csv", linhas |-> l] : l \in SeqsAte(L, 2)}
       \cup {[ext |-> "xlsx", linhas |-> [i \in DOMAIN l |-> CelulasExcel(l[i])]] :
               l \in SeqsAte(L, 2)}

NextSemCnpj ==
    \/ SelecionarArquivo(ArquivosSemCnpj, MaxExecucoes)
    \/ _validar_dados
    \/ _importar
    \/ Trabalhador
    \/ Despacho

SpecSemCnpj == Init /\ [][NextSemCnpj]_vars

\* the row of the file from which row k of the run was validated
LinhaLida(k) ==
    CHOOSE r \in Range(dados_validados) : LinhaDe(r) = thread.linhas[k].linha

\* C29: two rows of a run whose tax-id cells are empty (csv) or None (Excel)
\* and whose supplier names differ, trimmed and lower-cased, are resolved to
\* different supplier identifiers.
C29_SemCnpjNaoReusa ==
    DaExecucao =>
        \A a, b \in DOMAIN resolvidos :
            (/\ resolvidos[a].tabela = "fornecedores"
             /\ resolvidos[b].tabela = "fornecedores"
             /\ SemValor(LinhaLida(resolvidos[a].idx).fornecedor_cnpj)
             /\ SemValor(LinhaLida(resolvidos[b].idx).fornecedor_cnpj)
             /\ nome_lower(thread.linhas[resolvidos[a].idx].fornecedor_nome)
                    # nome_lower(thread.linhas[resolvidos[b].idx].fornecedor_nome))
                => resolvidos[a].id # resolvidos[b].id

\* the same, for csv files
C29_SemCnpjNaoReusaCsv ==
    (DaExecucao /\ \A r \in Range(dados_validados) : r.fornecedor_cnpj # PyNone)
        => C29_SemCnpjNaoReusa


----------------------------------------------------------------------------
(* The purchase value with a dot as decimal separator (SpecValor)             *)

\* digits "." digits, the form of the template's example row "3500.00"; three
\* digits after the dot are a thousands group in the Brazilian format and are
\* left out
FormatoPonto(s) ==
    LET p == Find(s, ".")
    IN /\ p > 1 /\ p < Len(s)
       /\ AllDigits(SubSeq(s, 1, p - 1))
       /\ AllDigits(SubSeq(s, p + 1, Len(s)))
       /\ Len(s) - p # 3

\* the numeric cell holding the number a text in that form writes
CelulaNumerica(s) ==
    LET p == Find(s, ".")
    IN PyFloat(DigitsToInt(SubSeq(s, 1, p - 1) \o SubSeq(s, p + 1, Len(s))), Len(s) - p)

\* C30: a valor_compra text with a dot as decimal separator and no comma is
\* accepted and parsed to the amount that the numeric cell of the same number
\* is parsed to.
C30_PontoDecimalComoNumero ==
    Validou =>
        LET celula == validacao.dados[1].valor_compra
        IN FormatoPonto(celula.s) =>
              /\ Len(validacao.linhas_validas) = 1
              /\ DecEq(validacao.linhas_validas[1].valor_compra,
                       _parse_decimal(CelulaNumerica(celula.s)))

====
